---- MODULE Spec2Model ----
(***************************************************************************)
(* Cooperative drone fleet (lelinguine/simulation-project).                *)
(*                                                                         *)
(* The model runs the tick loop of main.run_simulation on a one-row map    *)
(* (Environment(width, 1), the width being fixed by Init): the base, every *)
(* drone and every anomaly have y = 0, so calculate_distance is |x1 - x2|  *)
(* and every position the code computes is an integer.  A map key (x, 0)   *)
(* is written x.                                                           *)
(*                                                                         *)
(* Energy is counted in units of 1/90 battery point, which makes every     *)
(* quantity of config.py an integer: BATTERY_MAX 100.0 is 9000,            *)
(* BATTERY_DRAIN_PER_SECOND 100/1800 is 5, BATTERY_RECHARGE_RATE 100/600   *)
(* is 15, the treatment costs are 50 and 75.  Arithmetic is exact (the     *)
(* rounding of Python floats is not modelled).                             *)
(*                                                                         *)
(* The configuration is the one of config.py except for the values that    *)
(* size the run: MOVEMENT_COST is 1.0 battery point per unit (90) instead  *)
(* of 0.1, so that the battery limits the range on a small map,            *)
(* MAP_WIDTH is 70, NUM_DRONES is 2 and the tick budget MAX_TURNS is       *)
(* short.  ROBOT_STRATEGY is chosen in Init.                               *)
(*                                                                         *)
(* Specifications: Spec is the run of config.py as shipped (no anomaly     *)
(* evolves); SpecEvolving lets one snowball and one spread happen;         *)
(* SpecScenarioA is the run with one feasible intense radiation anomaly    *)
(* and a long tick budget; SpecDecision starts in the middle of a run,     *)
(* with a drone whose battery is exactly its return cost; SpecLastLeg      *)
(* starts with a drone two cells from the base on its way home and an      *)
(* anomaly that comes into view there; SpecSmallMap is Spec on a map of    *)
(* SMALL_WIDTH cells, which the drones can explore completely;             *)
(* SpecHomecoming starts with a drone that comes home with a low battery   *)
(* past an anomaly it knows; SpecEnRoute is Spec with a weak anomaly and   *)
(* an intense one just behind it; SpecEmergency is SpecDecision with a     *)
(* battery just below the return cost; SpecSelection starts late in a run  *)
(* with a drone about to select a target among two known anomalies;        *)
(* SpecSpreading lets one spread happen next to another anomaly.           *)
(* A run that starts in the middle starts with empty event logs.           *)
(***************************************************************************)
EXTENDS Integers, Sequences, FiniteSets, TLC

\* ------------------------------------------------------------ configuration
MAX_TURNS == 40
LONG_TURNS == 700
NUM_DRONES == 2
TIME_PER_TURN == 1
AUTONOMY_TIME == 1800
RECHARGE_TIME == 600
DEEP_SCAN_TIME == 10
BATTERY_MAX == 9000
BATTERY_DRAIN_PER_SECOND == BATTERY_MAX \div AUTONOMY_TIME
BATTERY_RECHARGE_RATE == BATTERY_MAX \div RECHARGE_TIME
MOVEMENT_COST == 90
TREATMENT_COST_WEAK == BATTERY_DRAIN_PER_SECOND * DEEP_SCAN_TIME
TREATMENT_COST_INTENSE == (BATTERY_DRAIN_PER_SECOND * DEEP_SCAN_TIME * 3) \div 2
DEPARTURE_PERCENT == 85
LOW_BATTERY_PERCENT == 15
VISION_RADIUS == 10
COMMUNICATION_RADIUS == 10
DRONE_SPEED == 5
MAP_WIDTH == 70
BASE_X == 5

\* constants written in the code itself
AT_BASE_RADIUS == 3
NEAR_TARGET_RADIUS == 3
ZONE_RADIUS == 15
ZONE_LIMIT == 100
MARK_RADIUS == 2

INITIAL_RADIUS == 90

\* the hazards a run starts with
MaxAnomalies == 2
AnomalyCells == {17, 30, 48, 52, 54, 55}
InitialType(x) == IF x \in {30} THEN "inondations" ELSE "radiation"
Strategies == {"action", "exploration", "mixte"}

Drones == 0 .. (NUM_DRONES - 1)
NONE == -1

VARIABLES
    strategy,          \* config.ROBOT_STRATEGY
    width,             \* env.width
    max_steps,         \* run_simulation: max_steps
    step,              \* run_simulation: step
    pc,                \* position in the tick loop of run_simulation / Drone.update
    cur,               \* the drone whose update is running
    anomalies,         \* env.anomalies (the list of Anomaly objects)
    exploration_map,   \* env.exploration_map: the cells whose value is 1
    drones,            \* the Drone objects, by id
    control,           \* the ControlCenter
    luck,              \* how many random draws of Anomaly.evolve may still fall below
                       \* ANOMALY_SNOWBALL_CHANCE / ANOMALY_SPREAD_CHANCE
    trace              \* the drones and anomalies before the phase that ran last
                       \* (observation only, read by no action)

vars == <<strategy, width, max_steps, step, pc, cur, anomalies, exploration_map, drones, control, luck, trace>>

\* the cells of the map
Cells == 0 .. (width - 1)

\* ------------------------------------------------------------------ helpers
Abs(n) == IF n < 0 THEN -n ELSE n
Min(a, b) == IF a <= b THEN a ELSE b
Max(a, b) == IF a >= b THEN a ELSE b

\* Drone.calculate_distance on the one-row map
calculate_distance(x1, x2) == Abs(x1 - x2)

Range(s) == {s[i] : i \in 1 .. Len(s)}

\* the dict d with the entries of e written over it
Overwrite(d, e) ==
    [k \in (DOMAIN d) \cup (DOMAIN e) |-> IF k \in DOMAIN e THEN e[k] ELSE d[k]]

EmptyMap == [k \in {} |-> 0]

\* the value None of target_anomaly, and the test "is None"
NoInfo == [id |-> 0, intensity |-> 0, distance |-> 0, position |-> NONE, status |-> "none"]
IsNone(info) == info.id = 0

\* list.remove(v): the first element equal to v is removed
RECURSIVE RemoveFirst(_, _)
RemoveFirst(s, v) ==
    IF s = <<>> THEN <<>>
    ELSE IF Head(s) = v THEN Tail(s)
    ELSE <<Head(s)>> \o RemoveFirst(Tail(s), v)

\* [a for a in s if a['position'] != pos]
RECURSIVE WithoutPosition(_, _)
WithoutPosition(s, pos) ==
    IF s = <<>> THEN <<>>
    ELSE IF Head(s).position = pos THEN WithoutPosition(Tail(s), pos)
    ELSE <<Head(s)>> \o WithoutPosition(Tail(s), pos)

HasPosition(s, pos) == \E i \in 1 .. Len(s) : s[i].position = pos

\* ----------------------------------------------------------------- costs
battery_max == BATTERY_MAX
DepartureLevel == (battery_max * DEPARTURE_PERCENT) \div 100
LowLevel == (battery_max * LOW_BATTERY_PERCENT) \div 100

\* Drone.calculate_return_cost
calculate_return_cost(d) == calculate_distance(d.x, BASE_X) * MOVEMENT_COST

\* the treatment cost the code reads off the live Anomaly object
TreatmentCost(anoms, info) ==
    IF anoms[info.id].intensity = 2 THEN TREATMENT_COST_INTENSE ELSE TREATMENT_COST_WEAK

\* (going to pos + coming back from pos) * movement_cost
TripCost(d, pos) ==
    (calculate_distance(d.x, pos) + calculate_distance(pos, BASE_X)) * MOVEMENT_COST

\* a test that knows the low battery at the base only, not the emergency
should_return_when_low_at_base(d) ==
    d.is_at_base /\ d.battery < LowLevel

\* Drone.should_return_to_base
should_return_to_base(d) ==
    \/ d.battery < calculate_return_cost(d)
    \/ d.is_at_base /\ d.battery < LowLevel

\* Drone.can_still_explore: the map is sampled every 10 cells, and a sampled cell
\* counts when the round trip from the base fits in the departure level
can_still_explore(d, emap) ==
    /\ d.battery >= calculate_return_cost(d)
    /\ \E c \in Cells \ emap :
          /\ c % 10 = 0
          /\ 2 * calculate_distance(BASE_X, c) * MOVEMENT_COST <= DepartureLevel

\* ------------------------------------------------------------------ gossip
\* a radio without a range limit: every pair of drones can talk
InRangeEverywhere(ds, i, j) == TRUE

InRange(ds, i, j) == calculate_distance(ds[i].x, ds[j].x) <= COMMUNICATION_RADIUS

\* a loop that queues every record the receiver does not have in its queue,
\* whether it knows the position or not
RECURSIVE ShareAnomaliesUnlessQueued(_, _, _)
ShareAnomaliesUnlessQueued(recs, senderClaims, o) ==
    IF recs = <<>> THEN o
    ELSE LET r == Head(recs)
             o1 == [o EXCEPT
                      !.personal_anomaly_map =
                          IF HasPosition(@, r.position) THEN @ ELSE Append(@, r),
                      !.detected_anomalies =
                          IF ~HasPosition(o.detected_anomalies, r.position)
                             /\ r.position \notin DOMAIN senderClaims
                          THEN Append(@, r) ELSE @]
         IN  ShareAnomaliesUnlessQueued(Tail(recs), senderClaims, o1)

\* the loop of share_exploration_map over self.personal_anomaly_map.items():
\* recs is what is left of the sender's map, o the receiver
RECURSIVE ShareAnomalies(_, _, _)
ShareAnomalies(recs, senderClaims, o) ==
    IF recs = <<>> THEN o
    ELSE LET r == Head(recs)
             o1 == IF HasPosition(o.personal_anomaly_map, r.position) THEN o
                   ELSE [o EXCEPT
                           !.personal_anomaly_map = Append(@, r),
                           !.detected_anomalies =
                               IF ~HasPosition(o.detected_anomalies, r.position)
                                  /\ r.position \notin DOMAIN senderClaims
                               THEN Append(@, r) ELSE @]
         IN  ShareAnomalies(Tail(recs), senderClaims, o1)

\* the disk of cells share_exploration_map marks around the sender's target
TargetZone(t) == {c \in (t - ZONE_RADIUS) .. (t + ZONE_RADIUS) : 0 <= c /\ c < ZONE_LIMIT}

\* a share that hands over the explored cells, the claims and the zone, but no
\* anomaly record
share_without_anomalies(s, o) ==
    LET o1 == [o EXCEPT !.personal_exploration_map = @ \cup s.personal_exploration_map,
                        !.anomalies_being_treated_by_others =
                            Overwrite(@, s.anomalies_being_treated_by_others)]
    IN  IF s.target_x # NONE /\ IsNone(s.target_anomaly)
        THEN [o1 EXCEPT !.zones_being_explored_by_others =
                 Overwrite(@, [c \in TargetZone(s.target_x) |-> s.id])]
        ELSE o1

\* a share that appends the sender's records without looking at what the receiver holds
share_appending(s, o) ==
    [o EXCEPT !.personal_exploration_map = @ \cup s.personal_exploration_map,
              !.personal_anomaly_map = @ \o s.personal_anomaly_map,
              !.detected_anomalies = @ \o s.personal_anomaly_map]

\* Drone.share_exploration_map(self, other_drone): the receiver afterwards
share_exploration_map(s, o) ==
    LET o1 == [o EXCEPT !.personal_exploration_map = @ \cup s.personal_exploration_map]
        o2 == ShareAnomalies(s.personal_anomaly_map, s.anomalies_being_treated_by_others, o1)
        o3 == [o2 EXCEPT !.anomalies_being_treated_by_others =
                            Overwrite(@, s.anomalies_being_treated_by_others)]
    IN  IF s.target_x # NONE /\ IsNone(s.target_anomaly)
        THEN [o3 EXCEPT !.zones_being_explored_by_others =
                 Overwrite(@, [c \in TargetZone(s.target_x) |-> s.id])]
        ELSE o3

\* the loop of communicate_with_nearby_drones over drones_list
RECURSIVE CommunicateLoop(_, _, _)
CommunicateLoop(ds, i, order) ==
    IF order = <<>> THEN ds
    ELSE LET j == Head(order)
         IN  IF j = i \/ ~InRange(ds, i, j) THEN CommunicateLoop(ds, i, Tail(order))
             ELSE LET d1 == [ds EXCEPT ![j] = share_exploration_map(ds[i], ds[j])]
                      d2 == [d1 EXCEPT ![i] = share_exploration_map(d1[j], d1[i])]
                  IN  CommunicateLoop(d2, i, Tail(order))

Forward == [k \in 1 .. NUM_DRONES |-> k - 1]
Backward == [k \in 1 .. NUM_DRONES |-> NUM_DRONES - k]

\* Drone.communicate_with_nearby_drones
communicate_with_nearby_drones(ds, i, reverse_order) ==
    CommunicateLoop(ds, i, IF reverse_order THEN Backward ELSE Forward)

\* a gossip that stops after the first pass
gossip_in_one_pass(ds, i, first, second) == CommunicateLoop(ds, i, first)

\* Drone.update, phase 0: communicate_with_nearby_drones in normal order, then
\* in reverse order
gossip_in_two_passes(ds, i, first, second) ==
    CommunicateLoop(CommunicateLoop(ds, i, first), i, second)

\* Drone.receive_anomaly_info
receive_anomaly_info(o, info) ==
    IF HasPosition(o.personal_anomaly_map, info.position) THEN o
    ELSE [o EXCEPT !.personal_anomaly_map = Append(@, info),
                   !.detected_anomalies = Append(@, info)]

\* Drone.communicate_discovery
communicate_discovery(ds, i, info) ==
    [j \in Drones |->
        IF j # i /\ InRange(ds, i, j) THEN receive_anomaly_info(ds[j], info) ELSE ds[j]]

\* --------------------------------------------------------------- detection
\* the entries detect_anomalies_in_range returns, in the order of env.anomalies
RECURSIVE DetectedFrom(_, _, _)
DetectedFrom(anoms, d, k) ==
    IF k > Len(anoms) THEN <<>>
    ELSE IF ~anoms[k].treated /\ calculate_distance(d.x, anoms[k].x) <= VISION_RADIUS
         THEN <<[id |-> k, intensity |-> anoms[k].intensity,
                 distance |-> calculate_distance(d.x, anoms[k].x),
                 position |-> anoms[k].x, status |-> "none"]>>
              \o DetectedFrom(anoms, d, k + 1)
         ELSE DetectedFrom(anoms, d, k + 1)

detect_anomalies_in_range(anoms, d) == DetectedFrom(anoms, d, 1)

\* the cells detect_anomalies_in_range marks explored
VisibleCells(x) == Max(0, x - VISION_RADIUS) .. Min(width - 1, x + VISION_RADIUS)

\* Drone.update, phase 1: what a newly detected anomaly does to the drone under 'action'
InterruptForAnomaly(anoms, d, info) ==
    LET total_cost == TripCost(d, info.position) + TreatmentCost(anoms, info)
    IN  IF strategy = "action" /\ IsNone(d.target_anomaly) /\ total_cost <= battery_max
        THEN IF d.battery >= total_cost
             THEN [d EXCEPT !.target_anomaly = info, !.target_x = info.position]
             ELSE [d EXCEPT !.target_anomaly = info, !.target_x = BASE_X]
        ELSE d

\* Drone.update, phase 1: the loop over the detected entries
RECURSIVE DetectionLoop(_, _, _, _)
DetectionLoop(ds, i, anoms, dets) ==
    IF dets = <<>> THEN ds
    ELSE LET info == Head(dets)
         IN  IF HasPosition(ds[i].personal_anomaly_map, info.position)
             THEN DetectionLoop(ds, i, anoms, Tail(dets))
             ELSE LET d1 == [ds[i] EXCEPT
                                !.personal_anomaly_map = Append(@, info),
                                !.detected_anomalies = Append(@, info),
                                !.direct_detections = @ \cup {info.position}]
                      d2 == InterruptForAnomaly(anoms, d1, info)
                      ds2 == communicate_discovery([ds EXCEPT ![i] = d2], i, info)
                  IN  DetectionLoop(ds2, i, anoms, Tail(dets))

\* ---------------------------------------------------------- target selection
\* the first element of s with the least Key, as list.sort(key) then [0] gives
\* (keys[i] is the key of s[i]; s is not empty)
FirstLeast(s, keys) ==
    s[CHOOSE i \in 1 .. Len(s) :
        \A j \in 1 .. Len(s) : keys[i] < keys[j] \/ (keys[i] = keys[j] /\ i <= j)]

\* a selection of cells that takes no notice of the zones claimed by peers
_select_exploration_target_ignoring_claims(d, emap) ==
    LET unexplored == Cells \ emap
        zones == [c \in {z \in DOMAIN d.zones_being_explored_by_others : z \in unexplored}
                     |-> d.zones_being_explored_by_others[c]]
        reachable == {c \in unexplored : d.battery >= TripCost(d, c)}
        best_dist == CHOOSE m \in {calculate_distance(c, d.x) : c \in reachable} :
                        \A c \in reachable : m <= calculate_distance(c, d.x)
        best_target == CHOOSE c \in reachable :
                          /\ calculate_distance(c, d.x) = best_dist
                          /\ \A e \in reachable : calculate_distance(e, d.x) = best_dist => c <= e
    IN  IF unexplored = {}
        THEN [d EXCEPT !.target_x = BASE_X, !.target_anomaly = NoInfo]
        ELSE IF reachable # {}
        THEN [d EXCEPT !.zones_being_explored_by_others = zones,
                       !.target_x = best_target, !.target_anomaly = NoInfo,
                       !.exploration_blocked_from_base = FALSE]
        ELSE [d EXCEPT !.zones_being_explored_by_others = zones,
                       !.exploration_blocked_from_base = d.is_at_base,
                       !.target_x = BASE_X, !.target_anomaly = NoInfo]

\* Drone._select_exploration_target
_select_exploration_target(d, emap) ==
    LET unexplored == Cells \ emap
        zones == [c \in {z \in DOMAIN d.zones_being_explored_by_others : z \in unexplored}
                     |-> d.zones_being_explored_by_others[c]]
        reachable == {c \in unexplored : c \notin DOMAIN zones /\ d.battery >= TripCost(d, c)}
        best_dist == CHOOSE m \in {calculate_distance(c, d.x) : c \in reachable} :
                        \A c \in reachable : m <= calculate_distance(c, d.x)
        best_target == CHOOSE c \in reachable :
                          /\ calculate_distance(c, d.x) = best_dist
                          /\ \A e \in reachable : calculate_distance(e, d.x) = best_dist => c <= e
    IN  IF unexplored = {}
        THEN [d EXCEPT !.target_x = BASE_X, !.target_anomaly = NoInfo]
        ELSE IF reachable # {}
        THEN [d EXCEPT !.zones_being_explored_by_others = zones,
                       !.target_x = best_target, !.target_anomaly = NoInfo,
                       !.exploration_blocked_from_base = FALSE]
        ELSE [d EXCEPT !.zones_being_explored_by_others = zones,
                       !.exploration_blocked_from_base = d.is_at_base,
                       !.target_x = BASE_X, !.target_anomaly = NoInfo]

\* the filter of _select_anomaly_target_by_priority on a list of entries
Available(d, anoms, s) ==
    SelectSeq(s, LAMBDA a :
        /\ a.position \notin DOMAIN d.anomalies_being_treated_by_others
        /\ ~anoms[a.id].treated
        /\ anoms[a.id].being_treated_by = -1)

\* Drone._select_anomaly_target_by_priority
_select_anomaly_target_by_priority(d, anoms, global_anomaly_map) ==
    LET own == Available(d, anoms, d.detected_anomalies)
        available_anomalies == IF own = <<>> THEN Available(d, anoms, global_anomaly_map)
                               ELSE own
        accessible_anomalies ==
            SelectSeq(available_anomalies, LAMBDA a :
                d.battery >= TripCost(d, a.position) + TreatmentCost(anoms, a))
        best_anomaly == FirstLeast(accessible_anomalies,
                                   [i \in 1 .. Len(accessible_anomalies) |->
                                       0 - accessible_anomalies[i].intensity])
    IN  IF accessible_anomalies = <<>>
        THEN [d EXCEPT !.target_x = BASE_X, !.target_anomaly = NoInfo]
        ELSE [d EXCEPT !.target_anomaly = best_anomaly, !.target_x = best_anomaly.position]

\* list.sort(key = (intensity, -distance), reverse = True): a stable descending sort
SortsBefore(a, b) ==
    \/ a.intensity > b.intensity
    \/ a.intensity = b.intensity /\ a.distance < b.distance

RECURSIVE InsertSorted(_, _)
InsertSorted(s, a) ==
    IF s = <<>> THEN <<a>>
    ELSE IF SortsBefore(a, Head(s)) THEN <<a>> \o s
    ELSE <<Head(s)>> \o InsertSorted(Tail(s), a)

RECURSIVE SortByUrgency(_, _)
SortByUrgency(s, acc) ==
    IF s = <<>> THEN acc ELSE SortByUrgency(Tail(s), InsertSorted(acc, Head(s)))

\* select_next_target, 'action', priorities 2 and 3: the nearest affordable untreated
\* anomaly of the given intensity in detected_anomalies, or NoInfo
NearestAffordable(d, anoms, intensity, treatment) ==
    LET found == SelectSeq(d.detected_anomalies, LAMBDA a :
                     /\ anoms[a.id].intensity = intensity
                     /\ ~anoms[a.id].treated
                     /\ d.battery >= TripCost(d, a.position) + treatment)
    IN  IF found = <<>> THEN NoInfo
        ELSE FirstLeast(found, [i \in 1 .. Len(found) |->
                                   calculate_distance(d.x, found[i].position)])

\* select_next_target, the branch of 'exploration'
SelectExploration(d, emap, anoms, global_anomaly_map) ==
    LET exploration_complete == Cardinality(emap) * 1000 >= 999 * width
        d1 == IF ~exploration_complete /\ ~d.exploration_blocked_from_base
              THEN _select_exploration_target(d, emap) ELSE d
        exploration_impossible == d1.exploration_blocked_from_base
        d2 == _select_anomaly_target_by_priority(d1, anoms, global_anomaly_map)
    IN  IF exploration_complete \/ exploration_impossible
        THEN IF IsNone(d2.target_anomaly) /\ ~exploration_complete /\ exploration_impossible
             THEN [d2 EXCEPT !.target_x = BASE_X]
             ELSE d2
        ELSE d1

\* a selection that looks for weak anomalies before intense ones
SelectActionWeakFirst(d, emap, anoms) ==
    LET d1 == IF ~IsNone(d.target_anomaly) /\ anoms[d.target_anomaly.id].treated
              THEN [d EXCEPT !.target_anomaly = NoInfo] ELSE d
        weak == NearestAffordable(d1, anoms, 1, TREATMENT_COST_WEAK)
        d2 == IF IsNone(d1.target_anomaly) /\ ~IsNone(weak)
              THEN [d1 EXCEPT !.target_anomaly = weak, !.target_x = weak.position]
              ELSE d1
        intense == NearestAffordable(d2, anoms, 2, TREATMENT_COST_INTENSE)
        d3 == IF IsNone(d2.target_anomaly) /\ ~IsNone(intense)
              THEN [d2 EXCEPT !.target_anomaly = intense, !.target_x = intense.position]
              ELSE d2
        d4 == _select_exploration_target(d3, emap)
    IN  IF ~IsNone(d3.target_anomaly) THEN d3
        ELSE IF d4.exploration_blocked_from_base
        THEN [d4 EXCEPT !.target_x = BASE_X, !.target_anomaly = NoInfo]
        ELSE d4

\* select_next_target, the branch of 'action'
SelectAction(d, emap, anoms) ==
    LET d1 == IF ~IsNone(d.target_anomaly) /\ anoms[d.target_anomaly.id].treated
              THEN [d EXCEPT !.target_anomaly = NoInfo] ELSE d
        intense == NearestAffordable(d1, anoms, 2, TREATMENT_COST_INTENSE)
        d2 == IF IsNone(d1.target_anomaly) /\ ~IsNone(intense)
              THEN [d1 EXCEPT !.target_anomaly = intense, !.target_x = intense.position]
              ELSE d1
        weak == NearestAffordable(d2, anoms, 1, TREATMENT_COST_WEAK)
        d3 == IF IsNone(d2.target_anomaly) /\ ~IsNone(weak)
              THEN [d2 EXCEPT !.target_anomaly = weak, !.target_x = weak.position]
              ELSE d2
        d4 == _select_exploration_target(d3, emap)
    IN  IF ~IsNone(d3.target_anomaly) THEN d3
        ELSE IF d4.exploration_blocked_from_base
        THEN [d4 EXCEPT !.target_x = BASE_X, !.target_anomaly = NoInfo]
        ELSE d4

\* select_next_target, the branch of 'mixte'
SelectMixte(d, emap) ==
    IF d.detected_anomalies # <<>>
    THEN LET sorted == SortByUrgency(d.detected_anomalies, <<>>)
             best_anomaly == Head(sorted)
             d1 == [d EXCEPT !.detected_anomalies = sorted]
         IN  IF ~IsNone(d.target_anomaly) /\ best_anomaly.intensity <= d.target_anomaly.intensity
             THEN d1
             ELSE [d1 EXCEPT !.target_anomaly = best_anomaly,
                             !.target_x = best_anomaly.position]
    ELSE _select_exploration_target(d, emap)

\* Drone.select_next_target
select_next_target(d, emap, anoms, global_anomaly_map) ==
    IF strategy = "exploration" THEN SelectExploration(d, emap, anoms, global_anomaly_map)
    ELSE IF strategy = "action" THEN SelectAction(d, emap, anoms)
    ELSE SelectMixte(d, emap)

\* ------------------------------------------------------------------ treatment
\* a treatment that does not look at the treated flag
treat_anomaly_once_more(d, anoms, info) ==
    LET treatment_cost == TreatmentCost(anoms, info)
        total_cost == treatment_cost + calculate_return_cost(d)
    IN  IF d.battery >= total_cost
        THEN [ok |-> TRUE,
              d |-> [d EXCEPT
                       !.battery = @ - treatment_cost,
                       !.anomalies_being_treated_by_others =
                           [k \in (DOMAIN @) \ {anoms[info.id].x} |-> @[k]]],
              anoms |-> [anoms EXCEPT ![info.id].treated = TRUE,
                                      ![info.id].being_treated_by = -1]]
        ELSE [ok |-> FALSE, d |-> d, anoms |-> anoms]

\* a treatment that is carried out whatever the battery
treat_anomaly_whatever_the_battery(d, anoms, info) ==
    LET treatment_cost == TreatmentCost(anoms, info)
    IN  IF anoms[info.id].treated
        THEN [ok |-> FALSE,
              d |-> [d EXCEPT !.detected_anomalies = WithoutPosition(@, info.position)],
              anoms |-> anoms]
        ELSE [ok |-> TRUE,
              d |-> [d EXCEPT
                       !.battery = @ - treatment_cost,
                       !.anomalies_being_treated_by_others =
                           [k \in (DOMAIN @) \ {anoms[info.id].x} |-> @[k]]],
              anoms |-> [anoms EXCEPT ![info.id].treated = TRUE,
                                      ![info.id].being_treated_by = -1]]

\* Drone.treat_anomaly: the value returned, the drone and the anomaly list afterwards
treat_anomaly(d, anoms, info) ==
    LET treatment_cost == TreatmentCost(anoms, info)
        total_cost == treatment_cost + calculate_return_cost(d)
    IN  IF anoms[info.id].treated
        THEN [ok |-> FALSE,
              d |-> [d EXCEPT !.detected_anomalies = WithoutPosition(@, info.position)],
              anoms |-> anoms]
        ELSE IF d.battery >= total_cost
        THEN [ok |-> TRUE,
              d |-> [d EXCEPT
                       !.battery = @ - treatment_cost,
                       !.anomalies_being_treated_by_others =
                           [k \in (DOMAIN @) \ {anoms[info.id].x} |-> @[k]]],
              anoms |-> [anoms EXCEPT ![info.id].treated = TRUE,
                                      ![info.id].being_treated_by = -1]]
        ELSE [ok |-> FALSE, d |-> d, anoms |-> anoms]

\* the loop of sync_with_control_center over control_center.global_anomaly_map.items()
RECURSIVE SyncAnomalies(_, _, _)
SyncAnomalies(recs, anoms, d) ==
    IF recs = <<>> THEN d
    ELSE LET r == Head(recs)
             d1 == IF HasPosition(d.personal_anomaly_map, r.position) THEN d
                   ELSE [d EXCEPT
                           !.personal_anomaly_map = Append(@, r),
                           !.detected_anomalies =
                               IF ~anoms[r.id].treated
                                  /\ ~HasPosition(d.detected_anomalies, r.position)
                               THEN Append(@, r) ELSE @]
         IN  SyncAnomalies(Tail(recs), anoms, d1)

\* a synchronisation that does not test is_at_base
sync_from_anywhere(d, anoms, cc) ==
    SyncAnomalies(cc.global_anomaly_map, anoms,
        [d EXCEPT !.personal_exploration_map = @ \cup cc.global_exploration_map])

\* Drone.sync_with_control_center: the value returned
sync_accepted(d) == d.is_at_base

\* Drone.sync_with_control_center
sync_with_control_center(d, anoms, cc) ==
    IF ~d.is_at_base THEN d
    ELSE SyncAnomalies(cc.global_anomaly_map, anoms,
            [d EXCEPT !.personal_exploration_map = @ \cup cc.global_exploration_map])

\* ------------------------------------------------------- Drone.update, phase 2
\* 2D, the drone is within reach of a target that is an anomaly
TreatTarget(ds, i, anoms) ==
    LET d == ds[i]
        total_cost == TreatmentCost(anoms, d.target_anomaly) + calculate_return_cost(d)
        t == treat_anomaly(d, anoms, d.target_anomaly)
        d1 == [t.d EXCEPT !.detected_anomalies = RemoveFirst(@, d.target_anomaly),
                          !.target_anomaly = NoInfo]
    IN  IF d.battery >= total_cost
        THEN IF t.ok
             THEN [ds |-> communicate_discovery([ds EXCEPT ![i] = d1], i,
                              [d.target_anomaly EXCEPT !.status = "treated"]),
                   anoms |-> t.anoms]
             ELSE [ds |-> [ds EXCEPT ![i] = t.d], anoms |-> anoms]
        ELSE [ds |-> [ds EXCEPT ![i] = [d EXCEPT !.target_anomaly = NoInfo,
                                                 !.target_x = BASE_X]],
              anoms |-> anoms]

\* the branch of phase 2 the drone takes
DecisionBranch(d) ==
    IF should_return_to_base(d) THEN "2A"
    ELSE IF /\ d.is_at_base
            /\ d.battery > DepartureLevel
            /\ (d.target_x = NONE \/ d.target_x = BASE_X) THEN "2B"
    ELSE IF d.target_x = NONE THEN "2C"
    ELSE IF calculate_distance(d.x, d.target_x) < NEAR_TARGET_RADIUS THEN "2D"
    ELSE "none"

\* phase 2: all drones and the anomaly list afterwards
Decide(ds, i, anoms, emap, cc) ==
    LET d == ds[i]
        branch == DecisionBranch(d)
        gmap == cc.global_anomaly_map
    IN  IF branch = "2A"
        THEN [ds |-> [ds EXCEPT ![i] = [d EXCEPT !.target_x = BASE_X,
                                                 !.target_anomaly = NoInfo]],
              anoms |-> anoms]
        ELSE IF branch = "2B"
        THEN [ds |-> [ds EXCEPT ![i] =
                        select_next_target(sync_with_control_center(d, anoms, cc),
                                           emap, anoms, gmap)],
              anoms |-> anoms]
        ELSE IF branch = "2C"
        THEN [ds |-> [ds EXCEPT ![i] = select_next_target(d, emap, anoms, gmap)],
              anoms |-> anoms]
        ELSE IF branch = "2D"
        THEN LET t == IF IsNone(d.target_anomaly) THEN [ds |-> ds, anoms |-> anoms]
                      ELSE TreatTarget(ds, i, anoms)
             IN  [ds |-> [t.ds EXCEPT ![i] = select_next_target(@, emap, t.anoms, gmap)],
                  anoms |-> t.anoms]
        ELSE [ds |-> ds, anoms |-> anoms]

\* ------------------------------------------------------- Drone.update, phase 3
\* the position move_towards_target steps to
NextPosition(x, target) ==
    LET raw == IF calculate_distance(target, x) < DRONE_SPEED THEN target
               ELSE IF target > x THEN x + DRONE_SPEED ELSE x - DRONE_SPEED
    IN  Max(0, Min(raw, width))

\* the battery move_towards_target consumes for a distance
BatteryDrain(distance_traveled) ==
    (BATTERY_DRAIN_PER_SECOND * distance_traveled * TIME_PER_TURN) \div DRONE_SPEED
    + MOVEMENT_COST * distance_traveled

\* the drain without the floor at zero
DrainedBelowZero(battery, battery_drain) == battery - battery_drain

\* self.battery after the drain
Drained(battery, battery_drain) == Max(0, battery - battery_drain)

\* Drone.log_event (current_step is the step of the update that is running)
log_event(d, action, start_x, end_x, battery_after) ==
    [d EXCEPT !.events = Append(@, [step |-> step, action |-> action, start_x |-> start_x,
                                    end_x |-> end_x, battery |-> battery_after])]

\* Drone.move_towards_target: the drone and env.exploration_map afterwards
move_towards_target(d, emap) ==
    LET return_cost == calculate_return_cost(d)
        to_base == d.target_x = BASE_X
        next_move_cost == Min(DRONE_SPEED, calculate_distance(d.target_x, d.x)) * MOVEMENT_COST
        d1 == IF d.battery - next_move_cost < return_cost /\ ~to_base
              THEN [d EXCEPT !.target_x = BASE_X, !.target_anomaly = NoInfo] ELSE d
        x2 == NextPosition(d.x, d1.target_x)
        path == Min(d.x, x2) .. Max(d.x, x2)
    IN  IF d.target_x = NONE THEN [d |-> d, emap |-> emap]
        ELSE IF d.battery <= return_cost /\ ~to_base
        THEN [d |-> [d EXCEPT !.target_x = BASE_X, !.target_anomaly = NoInfo],
              emap |-> emap]
        ELSE [d |-> log_event(
                       [d1 EXCEPT
                          !.x = x2,
                          !.battery = Drained(@, BatteryDrain(calculate_distance(x2, d.x))),
                          !.personal_exploration_map = @ \cup path],
                       IF d1.target_x = BASE_X THEN "return_to_base" ELSE "move",
                       d.x, x2, Drained(d.battery, BatteryDrain(calculate_distance(x2, d.x)))),
              emap |-> emap \cup {c \in Cells : \E p \in path :
                                      calculate_distance(c, p) <= MARK_RADIUS}]

\* a phase 3 that lets a drone at the base leave whatever its battery
ExecuteFromBaseAtOnce(d, emap) ==
    LET return_cost == calculate_return_cost(d)
        give_up == /\ d.target_x # NONE
                   /\ d.battery < TripCost(d, d.target_x)
                   /\ d.target_x # BASE_X
        d1 == IF give_up THEN [d EXCEPT !.target_x = BASE_X, !.target_anomaly = NoInfo]
              ELSE d
    IN  IF d.is_at_base
        THEN move_towards_target(d, emap)
        ELSE IF d1.battery > return_cost THEN move_towards_target(d1, emap)
        ELSE move_towards_target([d1 EXCEPT !.target_x = BASE_X,
                                            !.target_anomaly = NoInfo], emap)

\* phase 3: the drone and env.exploration_map afterwards
Execute(d, emap) ==
    LET return_cost == calculate_return_cost(d)
        give_up == /\ d.target_x # NONE
                   /\ d.battery < TripCost(d, d.target_x)
                   /\ d.target_x # BASE_X
        d1 == IF give_up THEN [d EXCEPT !.target_x = BASE_X, !.target_anomaly = NoInfo]
              ELSE d
    IN  IF d.is_at_base
        THEN IF d.battery >= DepartureLevel THEN move_towards_target(d, emap)
             ELSE [d |-> d, emap |-> emap]
        ELSE IF d1.battery > return_cost THEN move_towards_target(d1, emap)
        ELSE move_towards_target([d1 EXCEPT !.target_x = BASE_X,
                                            !.target_anomaly = NoInfo], emap)

\* neighbours that may already hold an anomaly
available_neighbors_even_occupied(anoms, x) ==
    {c \in {x - 1, x + 1} :
        /\ 0 <= c /\ c < width
        /\ calculate_distance(c, BASE_X) >= 2}

\* ------------------------------------------------------------ Anomaly.evolve
\* the cells an intense anomaly at x can spread to
available_neighbors(anoms, x) ==
    {c \in {x - 1, x + 1} :
        /\ 0 <= c /\ c < width
        /\ calculate_distance(c, BASE_X) >= 2
        /\ \A k \in 1 .. Len(anoms) : anoms[k].x # c}

\* the type-specific drift of the radius (tenths of a unit)
RadiusDrift(a, st) ==
    IF a.type = "radiation"
    THEN IF st % 20 = 0 THEN Min(a.radius + 2, 200) ELSE a.radius
    ELSE IF a.type = "inondations"
    THEN IF st < 100
         THEN IF st % 15 = 0 THEN Min(a.radius + 5, 180) ELSE a.radius
         ELSE IF st % 25 = 0 THEN Max(50, a.radius - 3) ELSE a.radius
    ELSE a.radius

\* a snowball that takes a weak anomaly to a third level of intensity
evolve_to_third_level(anoms, k, st, snow, spread, cell) ==
    LET a == anoms[k]
        intensity == IF a.intensity = 1 /\ snow THEN 3 ELSE a.intensity
        a1 == [a EXCEPT !.intensity = intensity]
    IN  IF a.treated THEN anoms
        ELSE IF intensity >= 2
        THEN IF spread /\ cell \in available_neighbors(anoms, a.x)
             THEN Append([anoms EXCEPT ![k] = a1],
                         [x |-> cell, intensity |-> 1, radius |-> (a.radius * 8) \div 10,
                          type |-> a.type, treated |-> FALSE, being_treated_by |-> -1])
             ELSE [anoms EXCEPT ![k] = a1]
        ELSE [anoms EXCEPT ![k] = [a1 EXCEPT !.radius = RadiusDrift(a, st)]]

\* an evolution that does not stop at treated anomalies
evolve_even_treated(anoms, k, st, snow, spread, cell) ==
    LET a == anoms[k]
        intensity == IF a.intensity = 1 /\ snow THEN 2 ELSE a.intensity
        a1 == [a EXCEPT !.intensity = intensity]
    IN  IF intensity = 2
        THEN IF spread /\ cell \in available_neighbors(anoms, a.x)
             THEN Append([anoms EXCEPT ![k] = a1],
                         [x |-> cell, intensity |-> 1, radius |-> (a.radius * 8) \div 10,
                          type |-> a.type, treated |-> FALSE, being_treated_by |-> -1])
             ELSE [anoms EXCEPT ![k] = a1]
        ELSE [anoms EXCEPT ![k] = [a1 EXCEPT !.radius = RadiusDrift(a, st)]]

\* Anomaly.evolve on anoms[k]: snow and spread say whether the two random draws fall
\* below the configured chances, cell is the neighbour random.choice picks
evolve(anoms, k, st, snow, spread, cell) ==
    LET a == anoms[k]
        intensity == IF a.intensity = 1 /\ snow THEN 2 ELSE a.intensity
        a1 == [a EXCEPT !.intensity = intensity]
    IN  IF a.treated THEN anoms
        ELSE IF intensity = 2
        THEN IF spread /\ cell \in available_neighbors(anoms, a.x)
             THEN Append([anoms EXCEPT ![k] = a1],
                         [x |-> cell, intensity |-> 1, radius |-> (a.radius * 8) \div 10,
                          type |-> a.type, treated |-> FALSE, being_treated_by |-> -1])
             ELSE [anoms EXCEPT ![k] = a1]
        ELSE [anoms EXCEPT ![k] = [a1 EXCEPT !.radius = RadiusDrift(a, st)]]

\* run_simulation: for anomaly in env.anomalies: anomaly.evolve(step, env)
\* (the list is read while it grows); snowAt and spreadAt are the anomalies whose
\* draw succeeds in this tick, 0 for none
RECURSIVE EvolveAll(_, _, _, _, _, _)
EvolveAll(anoms, k, st, snowAt, spreadAt, cell) ==
    IF k > Len(anoms) THEN anoms
    ELSE EvolveAll(evolve(anoms, k, st, k = snowAt, k = spreadAt, cell),
                   k + 1, st, snowAt, spreadAt, cell)

\* ------------------------------------------------------------ ControlCenter
\* the loop of receive_transmission over drone.detected_anomalies
RECURSIVE ReceiveAnomalies(_, _)
ReceiveAnomalies(recs, cc) ==
    IF recs = <<>> THEN cc
    ELSE LET r == Head(recs)
         IN  ReceiveAnomalies(Tail(recs),
                [cc EXCEPT
                   !.global_anomaly_map =
                       IF HasPosition(@, r.position) THEN @ ELSE Append(@, r),
                   !.detected_anomaly_positions = @ \cup {r.position}])

\* a reception in which the record transmitted last replaces the one stored
receive_last_seen(cc, d) ==
    [cc EXCEPT !.received_transmissions = @ + 1,
               !.global_exploration_map = @ \cup (d.personal_exploration_map \cap Cells),
               !.global_anomaly_map =
                   SelectSeq(@, LAMBDA r : ~HasPosition(d.detected_anomalies, r.position))
                       \o d.detected_anomalies,
               !.detected_anomaly_positions =
                   @ \cup {r.position : r \in Range(d.detected_anomalies)}]

\* ControlCenter.receive_transmission: the value returned
transmission_received(cc, d) == TRUE

\* ControlCenter.receive_transmission
receive_transmission(cc, d) ==
    ReceiveAnomalies(d.detected_anomalies,
        [cc EXCEPT !.received_transmissions = @ + 1,
                   !.global_exploration_map = @ \cup (d.personal_exploration_map \cap Cells)])

\* ControlCenter.send_update_to_drone: the value returned (nothing is sent)
send_update_to_drone(d) == d.is_at_base

\* Anomaly.get_intervention_type: the urgency
Urgency(a) ==
    IF a.type = "radiation" THEN (IF a.intensity = 2 THEN "CRITICAL" ELSE "MEDIUM")
    ELSE IF a.type = "inondations" THEN (IF a.intensity = 2 THEN "HIGH" ELSE "LOW")
    ELSE IF a.type = "pluie_meteorites" THEN (IF a.intensity = 2 THEN "CRITICAL" ELSE "MEDIUM")
    ELSE "MEDIUM"

\* Anomaly.get_intervention_type: the responder
Responder(a) ==
    IF a.type \in {"radiation", "inondations", "pluie_meteorites"}
    THEN (IF a.intensity = 2 THEN "HUMAN" ELSE "ROBOT")
    ELSE "HUMAN"

urgency_order(u) ==
    IF u = "CRITICAL" THEN 0 ELSE IF u = "HIGH" THEN 1 ELSE IF u = "MEDIUM" THEN 2
    ELSE IF u = "LOW" THEN 3 ELSE 4

\* an insertion that puts a zone before the zones of its own urgency
RECURSIVE InsertBeforeEqual(_, _)
InsertBeforeEqual(s, z) ==
    IF s = <<>> THEN <<z>>
    ELSE IF urgency_order(z.urgency) <= urgency_order(Head(s).urgency) THEN <<z>> \o s
    ELSE <<Head(s)>> \o InsertBeforeEqual(Tail(s), z)

\* list.sort(key = urgency_order): a stable ascending sort
RECURSIVE InsertByUrgency(_, _)
InsertByUrgency(s, z) ==
    IF s = <<>> THEN <<z>>
    ELSE IF urgency_order(z.urgency) < urgency_order(Head(s).urgency) THEN <<z>> \o s
    ELSE <<Head(s)>> \o InsertByUrgency(Tail(s), z)

RECURSIVE SortZones(_, _)
SortZones(s, acc) ==
    IF s = <<>> THEN acc ELSE SortZones(Tail(s), InsertByUrgency(acc, Head(s)))

\* ControlCenter.analyze_interventions
analyze_interventions(cc, anoms) ==
    LET zone(k) ==
            LET a == anoms[k]
                detected == a.x \in cc.detected_anomaly_positions
            IN  [position |-> a.x, type |-> a.type, intensity |-> a.intensity,
                 radius |-> a.radius, intervention_type |-> Responder(a),
                 urgency |-> Urgency(a), detected |-> detected,
                 treatability |-> IF ~detected THEN "UNKNOWN"
                                  ELSE IF a.treated THEN "TREATED" ELSE "NOT_TREATED"]
    IN  SortZones([k \in 1 .. Len(anoms) |-> zone(k)], <<>>)

\* -------------------------------------------------------------- initial state
\* Drone.__init__, and the battery and speed run_simulation sets
NewDrone(i) ==
    [id |-> i, x |-> BASE_X, battery |-> BATTERY_MAX, is_at_base |-> FALSE,
     personal_exploration_map |-> {}, personal_anomaly_map |-> <<>>,
     detected_anomalies |-> <<>>, anomalies_being_treated_by_others |-> EmptyMap,
     direct_detections |-> {}, zones_being_explored_by_others |-> EmptyMap,
     target_x |-> NONE, target_anomaly |-> NoInfo,
     exploration_blocked_from_base |-> FALSE, events |-> <<>>]

\* Anomaly(x, y, intensity, radius, type)
NewAnomaly(x, intensity) ==
    [x |-> x, intensity |-> intensity, radius |-> INITIAL_RADIUS, type |-> InitialType(x),
     treated |-> FALSE, being_treated_by |-> -1]

\* the anomaly lists a run starts with: up to MaxAnomalies anomalies on distinct
\* cells of AnomalyCells, listed by increasing x
InitialAnomalies ==
    {s \in UNION {[1 .. n -> {NewAnomaly(x, i) : x \in AnomalyCells, i \in {1, 2}}] :
                    n \in 0 .. MaxAnomalies} :
        \A k \in 1 .. (Len(s) - 1) : s[k].x < s[k + 1].x}

\* ControlCenter.__init__
NewControlCenter ==
    [global_anomaly_map |-> <<>>, detected_anomaly_positions |-> {},
     global_exploration_map |-> {}, received_transmissions |-> 0,
     intervention_zones |-> <<>>]

\* run_simulation up to the loop, on a map of map_width cells with one of the
\* anomaly lists of placements
InitFrom(snowballs, spreads, turns, map_width, placements) ==
    /\ strategy \in Strategies
    /\ width = map_width
    /\ max_steps = turns
    /\ step = 0
    /\ pc = "evolve"
    /\ cur = 0
    /\ anomalies \in placements
    /\ exploration_map = {}
    /\ drones = [i \in Drones |-> NewDrone(i)]
    /\ control = NewControlCenter
    /\ luck = [snowball |-> snowballs, spread |-> spreads]
    /\ trace = [drones |-> drones, anomalies |-> anomalies]

InitOn(snowballs, spreads, turns, map_width) ==
    InitFrom(snowballs, spreads, turns, map_width, InitialAnomalies)

InitWith(snowballs, spreads, turns) == InitOn(snowballs, spreads, turns, MAP_WIDTH)

\* a map narrow enough for the drones to see all of it within one battery charge
SMALL_WIDTH == 60

InitSmallMap == InitOn(0, 0, MAX_TURNS, SMALL_WIDTH)

\* a weak anomaly a drone selects from afar, and an intense one behind it that
\* comes into view while the drone is on its way
WeakAhead == 39
IntenseBehindIt == 44

InitEnRoute ==
    InitFrom(0, 0, MAX_TURNS, MAP_WIDTH,
             {<<NewAnomaly(WeakAhead, 1), NewAnomaly(IntenseBehindIt, 2)>>})

\* config.py as shipped: both chances are 0.00, no draw ever falls below them
Init == InitWith(0, 0, MAX_TURNS)

\* a run whose anomalies evolve: one snowball draw and one spread draw succeed
InitEvolving == InitWith(1, 1, MAX_TURNS) /\ Len(anomalies) = 1

\* a run in which one spread draw succeeds, started with an intense anomaly that
\* has another anomaly in the next cell, or with an intense flood
InitSpreading ==
    InitFrom(0, 1, MAX_TURNS, MAP_WIDTH,
             {s \in InitialAnomalies :
                 \/ /\ Len(s) = 2
                    /\ s[2].x - s[1].x = 1
                    /\ \E k \in 1 .. 2 : s[k].intensity = 2
                 \/ /\ Len(s) = 1
                    /\ s[1].intensity = 2
                    /\ s[1].type = "inondations"})

\* scenario A: one intense radiation anomaly that a full battery pays the round trip
\* and the treatment of, and a long tick budget
Feasible(a) ==
    2 * calculate_distance(a.x, BASE_X) * MOVEMENT_COST + TREATMENT_COST_INTENSE
        <= battery_max

ScenarioA ==
    /\ Len(anomalies) = 1
    /\ anomalies[1].intensity = 2
    /\ anomalies[1].type = "radiation"
    /\ Feasible(anomalies[1])

InitScenarioA == InitWith(0, 0, LONG_TURNS) /\ ScenarioA

\* scenario C: a tick in the middle of a run.  Drone 0 has flown to the cell it was
\* exploring and reached it with exactly the battery of the way home; one anomaly
\* comes into view there for the first time.  Drone 1 waits at the base.
ArrivalCells == {20, 40, 45}
MidRunStep == 20

Arrived(x0) ==
    LET d == [NewDrone(0) EXCEPT !.x = x0, !.target_x = x0,
                                 !.personal_exploration_map =
                                     0 .. (x0 - DRONE_SPEED + VISION_RADIUS)]
    IN  [d EXCEPT !.battery = calculate_return_cost(d)]

ComesIntoView(x0, a) ==
    /\ calculate_distance(x0, a) <= VISION_RADIUS
    /\ calculate_distance(x0 - DRONE_SPEED, a) > VISION_RADIUS

InitDecision ==
    /\ strategy \in Strategies
    /\ width = MAP_WIDTH
    /\ max_steps = MAX_TURNS
    /\ step = MidRunStep
    /\ pc = "detect"
    /\ cur = 0
    /\ \E x0 \in ArrivalCells :
          /\ anomalies \in {<<NewAnomaly(a, i)>> :
                               a \in {c \in AnomalyCells : ComesIntoView(x0, c)},
                               i \in {1, 2}}
          /\ drones = [i \in Drones |-> IF i = 0 THEN Arrived(x0) ELSE NewDrone(i)]
          /\ exploration_map = Arrived(x0).personal_exploration_map
    /\ control = [NewControlCenter EXCEPT !.global_exploration_map = exploration_map]
    /\ luck = [snowball |-> 0, spread |-> 0]
    /\ trace = [drones |-> drones, anomalies |-> anomalies]

\* a hard emergency: as in scenario C, but the last move has left drone 0 short of
\* the way home.  move_towards_target lets a drone fly DRONE_SPEED cells away from
\* the base when battery - DRONE_SPEED * movement_cost >= return cost, and the move
\* then drains BatteryDrain(DRONE_SPEED) while the return cost grows by
\* DRONE_SPEED * movement_cost: the drone can arrive up to
\* BatteryDrain(DRONE_SPEED) - DRONE_SPEED * MOVEMENT_COST short.
MaxShortfall == BatteryDrain(DRONE_SPEED) - DRONE_SPEED * MOVEMENT_COST

InitEmergency ==
    /\ strategy \in Strategies
    /\ width = MAP_WIDTH
    /\ max_steps = MAX_TURNS
    /\ step = MidRunStep
    /\ pc = "detect"
    /\ cur = 0
    /\ \E x0 \in ArrivalCells, short \in 1 .. MaxShortfall :
          /\ anomalies \in {<<NewAnomaly(a, i)>> :
                               a \in {c \in AnomalyCells : ComesIntoView(x0, c)},
                               i \in {1, 2}}
          /\ drones = [i \in Drones |->
                          IF i = 0
                          THEN [Arrived(x0) EXCEPT !.battery = @ - short]
                          ELSE NewDrone(i)]
          /\ exploration_map = Arrived(x0).personal_exploration_map
    /\ control = [NewControlCenter EXCEPT !.global_exploration_map = exploration_map]
    /\ luck = [snowball |-> 0, spread |-> 0]
    /\ trace = [drones |-> drones, anomalies |-> anomalies]

\* a selection: late in a run drone 0 has flown to the cell it was exploring, or is
\* on its way to an anomaly; it has heard of two anomalies ahead of it, in either
\* order (in the plane the order in which a drone learns of anomalies says nothing
\* about their distance to it), the first of which a peer may have treated since,
\* and a peer may have claimed the zone around a cell further out.  Under
\* 'exploration' an earlier homecoming may have left it blocked.  Drone 1 waits at
\* the base.
SelectionCells == {40, 45}
SelectionAnomalyCells == {48, 52, 55}
SelectionBatteries == {4600, 5200, 5360}
ClaimedTarget == 66
LateStep == MAX_TURNS - 4

InitSelection ==
    /\ strategy \in Strategies
    /\ width = MAP_WIDTH
    /\ max_steps = MAX_TURNS
    /\ step = LateStep
    /\ pc = "detect"
    /\ cur = 0
    /\ anomalies \in {<<[NewAnomaly(a, i) EXCEPT !.treated = t], NewAnomaly(b, j)>> :
                          <<a, b>> \in {p \in SelectionAnomalyCells \X SelectionAnomalyCells :
                                           p[1] < p[2]},
                          <<i, j>> \in {1, 2} \X {1, 2},
                          t \in BOOLEAN}
    /\ \E x0 \in SelectionCells, b \in SelectionBatteries, target \in 0 .. 2,
          claimed \in BOOLEAN, first \in 1 .. 2,
          blocked \in (IF strategy = "exploration" THEN BOOLEAN ELSE {FALSE}) :
          LET record(k) ==
                  [id |-> k, intensity |-> anomalies[k].intensity,
                   distance |-> calculate_distance(x0 - DRONE_SPEED, anomalies[k].x),
                   position |-> anomalies[k].x, status |-> "none"]
              heard == <<record(first), record(3 - first)>>
              d == [Arrived(x0) EXCEPT
                      !.battery = b,
                      !.exploration_blocked_from_base = blocked,
                      !.personal_anomaly_map = heard,
                      !.detected_anomalies = heard,
                      !.target_anomaly = IF target = 0 THEN NoInfo ELSE heard[target],
                      !.target_x = IF target = 0 THEN x0 ELSE heard[target].position,
                      !.zones_being_explored_by_others =
                          IF claimed THEN [c \in TargetZone(ClaimedTarget) |-> 1]
                          ELSE EmptyMap]
          IN  /\ b >= calculate_return_cost(d)
              /\ drones = [i \in Drones |-> IF i = 0 THEN d ELSE NewDrone(i)]
              /\ exploration_map = d.personal_exploration_map
    /\ control = [NewControlCenter EXCEPT !.global_exploration_map = exploration_map]
    /\ luck = [snowball |-> 0, spread |-> 0]
    /\ trace = [drones |-> drones, anomalies |-> anomalies]

\* the last leg of a return: drone 0 comes within AT_BASE_RADIUS of the base with a
\* low battery and no anomaly target, and an anomaly beside the base that no drone
\* has seen comes into view (in the plane the way home can pass such an anomaly for
\* the first time; on the one-row map the state is drawn).  Drone 1 waits at the base.
LastLegCell == 7
LastLegBattery == 1500

InitLastLeg ==
    /\ strategy \in Strategies
    /\ width = MAP_WIDTH
    /\ max_steps = MAX_TURNS
    /\ step = MidRunStep
    /\ pc = "detect"
    /\ cur = 0
    /\ anomalies \in {<<NewAnomaly(a, i)>> :
                         a \in {c \in AnomalyCells :
                                   calculate_distance(LastLegCell, c) <= VISION_RADIUS},
                         i \in {1, 2}}
    /\ drones = [i \in Drones |->
                    IF i = 0
                    THEN [NewDrone(0) EXCEPT !.x = LastLegCell, !.target_x = BASE_X,
                                             !.battery = LastLegBattery,
                                             !.personal_exploration_map =
                                                 VisibleCells(BASE_X)]
                    ELSE NewDrone(i)]
    /\ exploration_map = VisibleCells(BASE_X)
    /\ control = [NewControlCenter EXCEPT !.global_exploration_map = exploration_map]
    /\ luck = [snowball |-> 0, spread |-> 0]
    /\ trace = [drones |-> drones, anomalies |-> anomalies]

\* a homecoming: drone 0 comes within AT_BASE_RADIUS of the base after a short
\* sortie that passed an anomaly and left the rest of the map unexplored, with more
\* battery than LOW_BATTERY_PERCENT and less than the departure level (in the plane
\* every sortie explores one direction and leaves the others; on the one-row map
\* the state is drawn).  Drone 1 waits at the base.
HomecomingBattery == 2100
HomecomingFrontier == 25
PassedAnomaly == 17

InitHomecoming ==
    /\ strategy \in Strategies
    /\ width = MAP_WIDTH
    /\ max_steps = MAX_TURNS
    /\ step = MidRunStep
    /\ pc = "detect"
    /\ cur = 0
    /\ anomalies \in {<<NewAnomaly(PassedAnomaly, i)>> : i \in {1, 2}}
    /\ LET seen == [id |-> 1, intensity |-> anomalies[1].intensity,
                    distance |-> calculate_distance(BASE_X + DRONE_SPEED, PassedAnomaly),
                    position |-> PassedAnomaly, status |-> "none"]
       IN  /\ drones = [i \in Drones |->
                          IF i = 0
                          THEN [NewDrone(0) EXCEPT
                                  !.x = LastLegCell, !.target_x = BASE_X,
                                  !.battery = HomecomingBattery,
                                  !.personal_exploration_map = 0 .. HomecomingFrontier,
                                  !.personal_anomaly_map = <<seen>>,
                                  !.detected_anomalies = <<seen>>,
                                  !.direct_detections = {PassedAnomaly}]
                          ELSE NewDrone(i)]
           /\ control = [NewControlCenter EXCEPT
                            !.global_exploration_map = 0 .. HomecomingFrontier,
                            !.global_anomaly_map = <<seen>>,
                            !.detected_anomaly_positions = {PassedAnomaly}]
    /\ exploration_map = 0 .. HomecomingFrontier
    /\ luck = [snowball |-> 0, spread |-> 0]
    /\ trace = [drones |-> drones, anomalies |-> anomalies]

Observe == trace' = [drones |-> drones, anomalies |-> anomalies]

\* run_simulation's pruning that also forgets the history of the pruned positions
PruneTreatedAndHistory(cc, remaining) ==
    [cc EXCEPT !.global_anomaly_map = SelectSeq(@, LAMBDA r : r.position \in remaining),
               !.detected_anomaly_positions = @ \cap remaining]

\* run_simulation: the control centre keeps the records of the untreated anomalies
PruneTreated(cc, remaining) ==
    [cc EXCEPT !.global_anomaly_map = SelectSeq(@, LAMBDA r : r.position \in remaining)]

\* ------------------------------------------------------------------- actions
\* run_simulation, the head of the loop: every anomaly evolves, then the control
\* centre forgets the anomalies that are treated
Evolve ==
    /\ pc = "evolve"
    /\ \E snowAt \in 0 .. (IF luck.snowball > 0 THEN Len(anomalies) ELSE 0),
          spreadAt \in 0 .. (IF luck.spread > 0 THEN Len(anomalies) ELSE 0),
          dir \in {-1, 1} :
          LET cell == IF spreadAt = 0 THEN NONE ELSE anomalies[spreadAt].x + dir
              after == EvolveAll(anomalies, 1, step, snowAt, spreadAt, cell)
              remaining == {after[k].x : k \in {j \in 1 .. Len(after) : ~after[j].treated}}
          IN  /\ snowAt # 0 => anomalies[snowAt].intensity = 1 /\ ~anomalies[snowAt].treated
              /\ spreadAt # 0 => Len(after) > Len(anomalies)
              /\ spreadAt = 0 => dir = 1
              /\ anomalies' = after
              /\ luck' = [snowball |-> luck.snowball - (IF snowAt # 0 THEN 1 ELSE 0),
                          spread |-> luck.spread - (IF spreadAt # 0 THEN 1 ELSE 0)]
              /\ control' = PruneTreated(control, remaining)
    /\ pc' = "communicate"
    /\ cur' = 0
    /\ Observe
    /\ UNCHANGED <<strategy, width, max_steps, step, exploration_map, drones>>

\* Drone.update, phase 0: the two gossip passes
Communicate ==
    /\ pc = "communicate"
    /\ drones' = gossip_in_two_passes(drones, cur, Forward, Backward)
    /\ pc' = "detect"
    /\ Observe
    /\ UNCHANGED <<strategy, width, max_steps, step, cur, anomalies, exploration_map, control, luck>>

\* the recharge at the base
Recharged(d) ==
    LET at_base == calculate_distance(d.x, BASE_X) < AT_BASE_RADIUS
    IN  [d EXCEPT !.is_at_base = at_base,
                  !.battery = IF at_base
                              THEN Min(battery_max, @ + BATTERY_RECHARGE_RATE * TIME_PER_TURN)
                              ELSE @]

\* Drone.update, from the at-base test to the end of phase 1
Detect ==
    /\ pc = "detect"
    /\ LET d1 == Recharged(drones[cur])
           d2 == [d1 EXCEPT !.personal_exploration_map = @ \cup VisibleCells(d1.x)]
       IN  /\ drones' = DetectionLoop([drones EXCEPT ![cur] = d2], cur, anomalies,
                                      detect_anomalies_in_range(anomalies, d1))
           /\ exploration_map' = exploration_map \cup VisibleCells(d1.x)
    /\ pc' = "decide"
    /\ Observe
    /\ UNCHANGED <<strategy, width, max_steps, step, cur, anomalies, control, luck>>

\* Drone.update, phase 2
DecidePhase ==
    /\ pc = "decide"
    /\ LET r == Decide(drones, cur, anomalies, exploration_map, control)
       IN  /\ drones' = r.ds
           /\ anomalies' = r.anoms
    /\ pc' = "move"
    /\ Observe
    /\ UNCHANGED <<strategy, width, max_steps, step, cur, exploration_map, control, luck>>

\* Drone.update, phase 3
MovePhase ==
    /\ pc = "move"
    /\ LET r == Execute(drones[cur], exploration_map)
       IN  /\ drones' = [drones EXCEPT ![cur] = r.d]
           /\ exploration_map' = r.emap
    /\ pc' = "transmit"
    /\ Observe
    /\ UNCHANGED <<strategy, width, max_steps, step, cur, anomalies, control, luck>>

\* run_simulation, after drone.update: the transmission to the control centre
Transmit ==
    /\ pc = "transmit"
    /\ control' = receive_transmission(control, drones[cur])
    /\ IF cur + 1 < NUM_DRONES
       THEN pc' = "communicate" /\ cur' = cur + 1
       ELSE pc' = "endtick" /\ cur' = cur
    /\ Observe
    /\ UNCHANGED <<strategy, width, max_steps, step, anomalies, exploration_map, drones, luck>>

\* a stop test that also waits for every drone to be back at the base
mission_when_all_home(emap, anoms, ds) ==
    /\ Cardinality(emap) = width
    /\ \A k \in 1 .. Len(anoms) : anoms[k].treated
    /\ \A i \in Drones : ds[i].is_at_base

\* run_simulation, the first stop test: exploration_pct >= 100.0 and
\* untreated_anomalies == 0; the drones play no part in it
mission_accomplished(emap, anoms, ds) ==
    /\ Cardinality(emap) = width
    /\ \A k \in 1 .. Len(anoms) : anoms[k].treated

\* a stop test that lets the tick after the last one begin
turns_exhausted_one_late(st, turns) == st >= turns

\* run_simulation, the second stop test: step + 1 >= max_steps
turns_exhausted(st, turns) == st + 1 >= turns

\* run_simulation, the tail of the loop: the periodic analysis and the stop tests
EndTick ==
    /\ pc = "endtick"
    /\ control' = IF step % 50 = 0
                  THEN [control EXCEPT !.intervention_zones =
                           analyze_interventions(control, anomalies)]
                  ELSE control
    /\ IF \/ mission_accomplished(exploration_map, anomalies, drones)
          \/ turns_exhausted(step, max_steps)
       THEN pc' = "done" /\ step' = step
       ELSE pc' = "evolve" /\ step' = step + 1
    /\ Observe
    /\ UNCHANGED <<strategy, width, max_steps, cur, anomalies, exploration_map, drones, luck>>

Next ==
    \/ Evolve
    \/ Communicate
    \/ Detect
    \/ DecidePhase
    \/ MovePhase
    \/ Transmit
    \/ EndTick

Spec == Init /\ [][Next]_vars

SpecEvolving == InitEvolving /\ [][Next]_vars

SpecScenarioA == InitScenarioA /\ [][Next]_vars

SpecDecision == InitDecision /\ [][Next]_vars

SpecSmallMap == InitSmallMap /\ [][Next]_vars

SpecLastLeg == InitLastLeg /\ [][Next]_vars

SpecSelection == InitSelection /\ [][Next]_vars

SpecEmergency == InitEmergency /\ [][Next]_vars

SpecEnRoute == InitEnRoute /\ [][Next]_vars
SpecSpreading == InitSpreading /\ [][Next]_vars

SpecHomecoming == InitHomecoming /\ [][Next]_vars

\* ---------------------------------------------------------------- properties
\* what a drone knows: the parts of its state a gossip exchange can write
Knowledge(d) ==
    [personal_exploration_map |-> d.personal_exploration_map,
     personal_anomaly_map |-> d.personal_anomaly_map,
     detected_anomalies |-> d.detected_anomalies,
     anomalies_being_treated_by_others |-> d.anomalies_being_treated_by_others,
     zones_being_explored_by_others |-> d.zones_being_explored_by_others]

\* the record a map holds for a position
RecordAt(m, pos) == m[CHOOSE k \in 1 .. Len(m) : m[k].position = pos]

\* C2: in every reachable state the battery of every drone lies between 0 and
\* battery_max, whatever recharges, moves and treatments came before
C2_BatteryInBounds ==
    \A i \in Drones : 0 <= drones[i].battery /\ drones[i].battery <= battery_max

\* a move has just drained a battery down to the floor
C2_Witness ==
    /\ pc = "transmit"
    /\ trace.drones[cur].battery > 0
    /\ drones[cur].battery = 0

\* C6: a drone in communication range of the drone that gossips, and lacking a record
\* the other holds, holds a record of that position and that intensity after the pass
C6_GossipDelivers ==
    pc = "detect" =>
        \A i, j \in Drones :
            (i # j /\ cur \in {i, j} /\ InRange(trace.drones, i, j)) =>
                \A k \in 1 .. Len(trace.drones[i].personal_anomaly_map) :
                    LET h == trace.drones[i].personal_anomaly_map[k]
                    IN  ~HasPosition(trace.drones[j].personal_anomaly_map, h.position) =>
                            /\ HasPosition(drones[j].personal_anomaly_map, h.position)
                            /\ RecordAt(drones[j].personal_anomaly_map, h.position).intensity
                                   = h.intensity

\* the pass has just run between two drones in range, one of which lacked a record
C6_Witness ==
    /\ pc = "detect"
    /\ \E i, j \in Drones :
          /\ i # j /\ cur \in {i, j} /\ InRange(trace.drones, i, j)
          /\ \E k \in 1 .. Len(trace.drones[i].personal_anomaly_map) :
                LET h == trace.drones[i].personal_anomaly_map[k]
                IN  /\ ~HasPosition(trace.drones[j].personal_anomaly_map, h.position)
                    /\ HasPosition(drones[j].personal_anomaly_map, h.position)

\* C7: sharing a drone's maps with a peer twice in a row leaves the peer as sharing
\* them once does
C7_ShareIdempotent ==
    \A i, j \in Drones :
        i # j => LET once == share_exploration_map(drones[i], drones[j])
                 IN  share_exploration_map(drones[i], once) = once

\* a share that hands the peer an anomaly record and explored cells it lacked
C7_Witness ==
    \E i, j \in Drones :
        /\ i # j
        /\ LET once == share_exploration_map(drones[i], drones[j])
           IN  /\ once.personal_anomaly_map # drones[j].personal_anomaly_map
               /\ once.personal_exploration_map # drones[j].personal_exploration_map

\* C8: the gossip passes and the discovery broadcasts of the drone that is updated
\* leave a peer farther away than the communication radius with the knowledge it had
C8_OutOfRangeUnchanged ==
    pc \in {"detect", "decide", "move"} =>
        \A j \in Drones :
            (j # cur /\ calculate_distance(trace.drones[cur].x, trace.drones[j].x)
                            > COMMUNICATION_RADIUS) =>
                Knowledge(drones[j]) = Knowledge(trace.drones[j])

\* a drone has just detected an anomaly and broadcast it with its peer out of range
C8_Witness ==
    /\ pc = "decide"
    /\ drones[cur].direct_detections # trace.drones[cur].direct_detections
    /\ \E j \in Drones :
          /\ j # cur
          /\ calculate_distance(trace.drones[cur].x, trace.drones[j].x) > COMMUNICATION_RADIUS

\* C1: right after a move that changed its position, the battery of the drone covers
\* the return cost from the new position
C1_EnergyCoversReturn ==
    (pc = "transmit" /\ drones[cur].x # trace.drones[cur].x) =>
        drones[cur].battery >= calculate_return_cost(drones[cur])

\* C3: a drone whose battery is exactly calculate_return_cost at the start of phase 2
\* of its update leaves phase 2 with the base as its target
C3_ReturnAtExactCost ==
    (/\ pc = "move"
     /\ trace.drones[cur].battery = calculate_return_cost(trace.drones[cur]))
    => drones[cur].target_x = BASE_X

\* C4: an intense radiation anomaly whose round trip from the base plus treatment
\* costs more than a full battery is never marked treated
C4_InfeasibleNeverTreated ==
    \A k \in 1 .. Len(anomalies) :
        (/\ anomalies[k].intensity = 2
         /\ anomalies[k].type = "radiation"
         /\ ~Feasible(anomalies[k])) => ~anomalies[k].treated

\* C5: in scenario A, once the tick budget is spent the anomaly is treated and gone
\* from the pending queue of a drone that knows it
C5_FeasibleTreatedInTheEnd ==
    pc = "done" =>
        /\ anomalies[1].treated
        /\ \E i \in Drones :
              /\ HasPosition(drones[i].personal_anomaly_map, anomalies[1].x)
              /\ ~HasPosition(drones[i].detected_anomalies, anomalies[1].x)

\* C9: when the drone that gossips and a peer in range hold records of different
\* intensity for one position, both hold the record of the higher intensity after
\* the pass
C9_ConflictsReconciled ==
    pc = "detect" =>
        \A j \in Drones :
            (j # cur /\ calculate_distance(trace.drones[cur].x, trace.drones[j].x)
                            <= COMMUNICATION_RADIUS) =>
                \A a \in 1 .. Len(trace.drones[cur].personal_anomaly_map) :
                    \A b \in 1 .. Len(trace.drones[j].personal_anomaly_map) :
                        LET ra == trace.drones[cur].personal_anomaly_map[a]
                            rb == trace.drones[j].personal_anomaly_map[b]
                            worst == Max(ra.intensity, rb.intensity)
                        IN  (ra.position = rb.position /\ ra.intensity # rb.intensity) =>
                                /\ RecordAt(drones[cur].personal_anomaly_map,
                                            ra.position).intensity = worst
                                /\ RecordAt(drones[j].personal_anomaly_map,
                                            ra.position).intensity = worst

\* C10: when the decision phase leaves the drone with a new anomaly target, every
\* peer in range holds that position as claimed by the drone
C10_SelectionAnnounced ==
    (/\ pc = "move"
     /\ ~IsNone(drones[cur].target_anomaly)
     /\ drones[cur].target_anomaly # trace.drones[cur].target_anomaly) =>
        \A j \in Drones :
            (j # cur /\ calculate_distance(drones[cur].x, drones[j].x)
                            <= COMMUNICATION_RADIUS) =>
                /\ drones[cur].target_anomaly.position
                       \in DOMAIN drones[j].anomalies_being_treated_by_others
                /\ drones[j].anomalies_being_treated_by_others[
                       drones[cur].target_anomaly.position] = cur

\* C11: no two drones have the same untreated anomaly as their target_anomaly
C11_OneTreatingClaim ==
    \A i, j \in Drones :
        (/\ i # j
         /\ ~IsNone(drones[i].target_anomaly)
         /\ ~IsNone(drones[j].target_anomaly)
         /\ drones[i].target_anomaly.position = drones[j].target_anomaly.position)
        => anomalies[drones[i].target_anomaly.id].treated

\* the drones whose update of the current tick has run through its move phase
UpdatedThisTick ==
    IF pc = "evolve" THEN {}
    ELSE IF pc \in {"endtick", "done"} THEN Drones
    ELSE {i \in Drones : i < cur \/ (i = cur /\ pc = "transmit")}

\* C12: when a drone starts its gossip pass no drone has yet detected, decided or
\* moved in the tick: all gossip of a tick comes before the first update of the tick
C12_GossipBeforeUpdates ==
    pc = "communicate" => UpdatedThisTick = {}

\* C13: no step removes a position from the control centre's history of detected
\* positions, whether it is a transmission, the pruning of the global anomaly map or
\* an analysis of the interventions
C13_HistoryMonotone ==
    [][control.detected_anomaly_positions \subseteq control'.detected_anomaly_positions]_vars

\* a detected position has been pruned from the global anomaly map and is still in
\* the history
C13_Witness ==
    \E p \in control.detected_anomaly_positions :
        /\ ~HasPosition(control.global_anomaly_map, p)
        /\ \E k \in 1 .. Len(anomalies) : anomalies[k].x = p /\ anomalies[k].treated

\* C14: every position a drone has detected itself is in the control centre's history
\* of detected positions once the drone has transmitted in the tick of the detection,
\* and stays there, whether or not the anomaly is treated meanwhile
C14_HistoryComplete ==
    \A i \in Drones :
        ~(i = cur /\ pc \in {"decide", "move", "transmit"}) =>
            drones[i].direct_detections \subseteq control.detected_anomaly_positions

\* C15: a reception leaves every record the global anomaly map holds as it is, stores
\* the drone's record for every position the map lacked, only adds cells to the global
\* exploration map, and returns True
C15_FirstSeenWins ==
    pc = "transmit" =>
        LET d == drones[cur]
            before == control.global_anomaly_map
            after == receive_transmission(control, d)
        IN  /\ \A k \in 1 .. Len(before) :
                  RecordAt(after.global_anomaly_map, before[k].position) = before[k]
            /\ \A k \in 1 .. Len(d.detected_anomalies) :
                  LET r == d.detected_anomalies[k]
                  IN  /\ HasPosition(after.global_anomaly_map, r.position)
                      /\ ~HasPosition(before, r.position) =>
                             RecordAt(after.global_anomaly_map, r.position) = r
            /\ control.global_exploration_map \subseteq after.global_exploration_map
            /\ transmission_received(control, d)

\* a drone transmits a record for a position the global map holds another record of
C15_Witness ==
    /\ pc = "transmit"
    /\ \E k \in 1 .. Len(drones[cur].detected_anomalies) :
          LET r == drones[cur].detected_anomalies[k]
          IN  /\ HasPosition(control.global_anomaly_map, r.position)
              /\ RecordAt(control.global_anomaly_map, r.position) # r

\* C16: the update of a drone by the control centre is refused exactly when the drone's
\* is_at_base flag is not set: send_update_to_drone and sync_with_control_center then
\* return False and the drone is left as it was; they return True only with the flag set
C16_UpdateOnlyAtBase ==
    \A i \in Drones :
        /\ send_update_to_drone(drones[i]) <=> drones[i].is_at_base
        /\ sync_accepted(drones[i]) <=> drones[i].is_at_base
        /\ ~drones[i].is_at_base =>
               sync_with_control_center(drones[i], anomalies, control) = drones[i]

\* a drone away from the base lacks a cell and an anomaly record the control centre
\* holds, and the update is refused
C16_Witness ==
    \E i \in Drones :
        /\ ~drones[i].is_at_base
        /\ ~send_update_to_drone(drones[i])
        /\ ~(control.global_exploration_map \subseteq drones[i].personal_exploration_map)
        /\ \E k \in 1 .. Len(control.global_anomaly_map) :
              ~HasPosition(drones[i].personal_anomaly_map,
                           control.global_anomaly_map[k].position)

\* C17: right after run_simulation has called send_update_to_drone for a drone at the
\* base and got True, the drone's exploration map holds every cell of the global
\* exploration map and its anomaly map every position of the global anomaly map
C17_UpdateDelivers ==
    \A i \in Drones :
        (/\ (pc = "communicate" /\ i = cur - 1) \/ (pc = "endtick" /\ i = cur)
         /\ send_update_to_drone(drones[i]))
        => /\ control.global_exploration_map \subseteq drones[i].personal_exploration_map
           /\ \A k \in 1 .. Len(control.global_anomaly_map) :
                 HasPosition(drones[i].personal_anomaly_map,
                             control.global_anomaly_map[k].position)

\* the place of a zone's anomaly in env.anomalies
WorldIndex(z) == CHOOSE k \in 1 .. Len(anomalies) : anomalies[k].x = z.position

\* C18: analyze_interventions lists the zones by urgency, CRITICAL before HIGH before
\* MEDIUM before LOW, zones of one urgency in the order of env.anomalies, and running
\* it again on the same anomalies gives the same list whatever list was stored before
C18_InterventionsSorted ==
    LET zones == analyze_interventions(control, anomalies)
        again == analyze_interventions([control EXCEPT !.intervention_zones = zones],
                                       anomalies)
    IN  /\ Len(zones) = Len(anomalies)
        /\ \A a, b \in 1 .. Len(zones) :
              a < b =>
                  \/ urgency_order(zones[a].urgency) < urgency_order(zones[b].urgency)
                  \/ /\ zones[a].urgency = zones[b].urgency
                     /\ WorldIndex(zones[a]) < WorldIndex(zones[b])
        /\ \A a \in 1 .. Len(zones) :
              zones[a].urgency \in {"CRITICAL", "HIGH", "MEDIUM", "LOW"}
        /\ again = zones

\* the analysis of the first tick has run on two anomalies of one urgency
C18_Witness ==
    /\ Len(control.intervention_zones) = 2
    /\ control.intervention_zones[1].urgency = control.intervention_zones[2].urgency
    /\ control.intervention_zones = analyze_interventions(control, anomalies)

\* C19: at the end of a tick at which the whole map is explored and no
\* untreated anomaly remains, the loop stops at that tick (the step counter
\* does not advance), however many ticks of the budget are left.
C19_StopsWhenComplete ==
    [][(/\ pc = "endtick"
        /\ Cardinality(exploration_map) = width
        /\ \A k \in 1 .. Len(anomalies) : anomalies[k].treated)
       => (pc' = "done" /\ step' = step)]_vars

\* the loop has stopped on a complete mission with ticks of the budget unused
C19_Witness ==
    /\ pc = "done"
    /\ step + 1 < max_steps
    /\ Cardinality(exploration_map) = width
    /\ \A k \in 1 .. Len(anomalies) : anomalies[k].treated

\* C20: a treated anomaly stays treated in every later state, its intensity and
\* its radius never change again, and every anomaly that appears has an
\* untreated neighbour of its own type as parent, never a treated one.
C20_TreatedIsTerminal ==
    [][/\ Len(anomalies') >= Len(anomalies)
       /\ \A k \in 1 .. Len(anomalies) :
             anomalies[k].treated =>
                 /\ anomalies'[k].treated
                 /\ anomalies'[k].intensity = anomalies[k].intensity
                 /\ anomalies'[k].radius = anomalies[k].radius
       /\ \A n \in (Len(anomalies) + 1) .. Len(anomalies') :
             \E k \in 1 .. Len(anomalies) :
                 /\ ~anomalies[k].treated
                 /\ calculate_distance(anomalies[k].x, anomalies'[n].x) = 1
                 /\ anomalies'[n].type = anomalies[k].type]_vars

\* the evolution phase has just run over a treated intense anomaly while a
\* spread draw could still succeed
C20_Witness ==
    /\ pc = "communicate"
    /\ cur = 0
    /\ luck.spread > 0
    /\ \E k \in 1 .. Len(trace.anomalies) :
          /\ trace.anomalies[k].treated
          /\ trace.anomalies[k].intensity = 2
          /\ anomalies[k] = trace.anomalies[k]

\* C21: every anomaly of env.anomalies has intensity 1 or 2 in every state,
\* whatever snowballs, spreads and treatments have happened.
C21_IntensityWeakOrIntense ==
    \A k \in 1 .. Len(anomalies) : anomalies[k].intensity \in {1, 2}

\* an anomaly that started weak has snowballed and spread, the anomaly it spawned
\* is in the list and one anomaly is treated
C21_Witness ==
    /\ luck.snowball = 0
    /\ luck.spread = 0
    /\ Len(anomalies) = 2
    /\ anomalies[1].intensity = 2
    /\ anomalies[2].intensity = 1
    /\ \E k \in 1 .. Len(anomalies) : anomalies[k].treated

\* C22: under 'exploration' no drone has an anomaly as its target while the map
\* is not fully explored and can_still_explore holds for it.
C22_ExplorationBeforeAnomalies ==
    strategy = "exploration" =>
        \A i \in Drones :
            (/\ Cardinality(exploration_map) < width
             /\ can_still_explore(drones[i], exploration_map))
                => IsNone(drones[i].target_anomaly)

\* the known anomalies of a drone that are not treated
KnownUntreated(d) ==
    {r \in Range(d.detected_anomalies) : ~anomalies[r.id].treated}

\* C23: under 'mixte' a drone that is on its way to an anomaly, is in no battery
\* emergency, and knows an untreated anomaly of a higher intensity than its
\* target, leaves its decision phase with an anomaly of that higher intensity
\* as target: it switches in the tick in which it learns of it.
C23_SwitchesToMoreSevere ==
    (strategy = "mixte" /\ pc = "move") =>
        LET before == trace.drones[cur]
            d == drones[cur]
        IN  (/\ ~IsNone(before.target_anomaly)
             /\ ~should_return_to_base(before)
             /\ \E r \in KnownUntreated(before) :
                   r.intensity > before.target_anomaly.intensity)
                => (/\ ~IsNone(d.target_anomaly)
                    /\ d.target_anomaly.intensity > before.target_anomaly.intensity)

\* C24: every step in which a drone changes its position or treats an anomaly
\* appends one event carrying the drone's battery after the step to that drone's
\* events, and the steps recorded along every drone's events never decrease.
C24_ActionsLogged ==
    [][\A i \in Drones :
          /\ \A k \in 1 .. (Len(drones[i].events) - 1) :
                drones[i].events[k].step <= drones[i].events[k + 1].step
          /\ (\/ drones'[i].x # drones[i].x
              \/ /\ i = cur
                 /\ \E k \in 1 .. Len(anomalies) :
                       ~anomalies[k].treated /\ anomalies'[k].treated)
                => /\ Len(drones'[i].events) = Len(drones[i].events) + 1
                   /\ drones'[i].events[Len(drones'[i].events)].battery = drones'[i].battery]_vars

\* C25: a drone whose battery is below calculate_return_cost when its decision
\* phase starts leaves the decision phase with the base as target and no anomaly
\* target, and the move of that tick does not take it further from the base.
C25_EmergencyReturns ==
    /\ pc = "move" =>
          LET before == trace.drones[cur]
          IN  before.battery < calculate_return_cost(before)
                  => /\ drones[cur].target_x = BASE_X
                     /\ IsNone(drones[cur].target_anomaly)
    /\ pc = "transmit" =>
          LET decided == trace.drones[cur]
          IN  (/\ decided.battery < calculate_return_cost(decided)
               /\ decided.target_x = BASE_X
               /\ IsNone(decided.target_anomaly))
                  => calculate_distance(drones[cur].x, BASE_X)
                         <= calculate_distance(decided.x, BASE_X)

\* a drone away from the base started its decision phase short of the return
\* cost with another target than the base, and has left it with the base as target
C25_Witness ==
    /\ pc = "move"
    /\ trace.drones[cur].battery < calculate_return_cost(trace.drones[cur])
    /\ trace.drones[cur].target_x # BASE_X
    /\ drones[cur].target_x = BASE_X

\* C26: no drone, at the base or away from it, moves towards a target that is
\* not the base with less battery than the way to the target and from the
\* target to the base costs: it gives the target up for the base first.
C26_NoMoveWithoutReturn ==
    pc = "transmit" =>
        LET decided == trace.drones[cur]
            d == drones[cur]
        IN  (/\ d.x # decided.x
             /\ decided.target_x \notin {NONE, BASE_X}
             /\ decided.battery < TripCost(decided, decided.target_x))
                => /\ d.target_x = BASE_X
                   /\ calculate_distance(d.x, BASE_X) <= calculate_distance(decided.x, BASE_X)

\* the untreated anomalies of the given intensity in the queue of d that d can
\* reach, treat at the given cost and come home from
AffordableOf(d, intensity, treatment) ==
    {r \in Range(d.detected_anomalies) :
        /\ anomalies[r.id].intensity = intensity
        /\ ~anomalies[r.id].treated
        /\ TripCost(d, r.position) + treatment <= d.battery}

\* the unexplored cells no peer has claimed that d can reach and come home from
AffordableFrontier(d) ==
    {c \in Cells \ exploration_map :
        /\ c \notin DOMAIN d.zones_being_explored_by_others
        /\ TripCost(d, c) <= d.battery}

\* no element of the set is nearer to d than pos
NearestIn(d, pos, positions) ==
    \A q \in positions : calculate_distance(d.x, pos) <= calculate_distance(d.x, q)

\* C27: under 'action' the selection applied to the drone whose decision phase
\* is about to run keeps an untreated anomaly target; else takes the nearest
\* affordable untreated intense anomaly of the queue; else the nearest affordable
\* untreated weak one; else the nearest affordable unexplored cell; else the base.
C27_ActionPriority ==
    (strategy = "action" /\ pc = "decide") =>
        LET d == drones[cur]
            r == select_next_target(d, exploration_map, anomalies, control.global_anomaly_map)
            keep == ~IsNone(d.target_anomaly) /\ ~anomalies[d.target_anomaly.id].treated
            intense == AffordableOf(d, 2, TREATMENT_COST_INTENSE)
            weak == AffordableOf(d, 1, TREATMENT_COST_WEAK)
            frontier == AffordableFrontier(d)
        IN  IF keep
            THEN r.target_anomaly = d.target_anomaly /\ r.target_x = d.target_x
            ELSE IF intense # {}
            THEN /\ r.target_anomaly \in intense
                 /\ r.target_x = r.target_anomaly.position
                 /\ NearestIn(d, r.target_x, {a.position : a \in intense})
            ELSE IF weak # {}
            THEN /\ r.target_anomaly \in weak
                 /\ r.target_x = r.target_anomaly.position
                 /\ NearestIn(d, r.target_x, {a.position : a \in weak})
            ELSE IF frontier # {}
            THEN /\ IsNone(r.target_anomaly)
                 /\ r.target_x \in frontier
                 /\ NearestIn(d, r.target_x, frontier)
            ELSE IsNone(r.target_anomaly) /\ r.target_x = BASE_X

\* a drone without an anomaly target that has an affordable intense and an
\* affordable weak anomaly in its queue is about to select
C27_Witness ==
    /\ strategy = "action"
    /\ pc = "decide"
    /\ IsNone(drones[cur].target_anomaly)
    /\ DecisionBranch(drones[cur]) \in {"2B", "2C", "2D"}
    /\ AffordableOf(drones[cur], 2, TREATMENT_COST_INTENSE) # {}
    /\ AffordableOf(drones[cur], 1, TREATMENT_COST_WEAK) # {}

\* the anomalies _select_anomaly_target_by_priority may choose for d: known to d
\* (or, when d has none to choose from, to the control centre), claimed by no
\* peer, untreated, and affordable with the way there, the treatment and the way home
Qualifying(d) ==
    LET open(recs) == {r \in recs :
                          /\ r.position \notin DOMAIN d.anomalies_being_treated_by_others
                          /\ ~anomalies[r.id].treated
                          /\ anomalies[r.id].being_treated_by = -1}
        own == open(Range(d.detected_anomalies))
        known == IF own # {} THEN own ELSE open(Range(control.global_anomaly_map))
    IN  {r \in known :
            TripCost(d, r.position) + TreatmentCost(anomalies, r) <= d.battery}

\* the decision phase of d is about to call _select_anomaly_target_by_priority on
\* d as it is: under 'exploration', from branch 2C or 2D, with no anomaly to treat
\* first, the map complete or the drone blocked at the base
PrioritySelectionRuns(d) ==
    /\ strategy = "exploration"
    /\ DecisionBranch(d) \in {"2C", "2D"}
    /\ IsNone(d.target_anomaly)
    /\ \/ Cardinality(exploration_map) * 1000 >= 999 * width
       \/ d.exploration_blocked_from_base

\* C28: _select_anomaly_target_by_priority returns a known, unclaimed, untreated
\* and affordable anomaly of the highest intensity among those, and the nearest
\* to the drone among the ones of that intensity; when none qualifies the target
\* is the base.
C28_MostSevereThenNearest ==
    (pc = "decide" /\ PrioritySelectionRuns(drones[cur])) =>
        LET d == drones[cur]
            r == _select_anomaly_target_by_priority(d, anomalies, control.global_anomaly_map)
            q == Qualifying(d)
        IN  IF q = {}
            THEN IsNone(r.target_anomaly) /\ r.target_x = BASE_X
            ELSE /\ r.target_anomaly \in q
                 /\ r.target_x = r.target_anomaly.position
                 /\ \A a \in q : a.intensity <= r.target_anomaly.intensity
                 /\ NearestIn(d, r.target_x,
                              {a.position : a \in {b \in q :
                                  b.intensity = r.target_anomaly.intensity}})

\* the decision phase of d is about to call _select_exploration_target on d as it
\* is: from branch 2C or 2D with no anomaly to treat first; under 'exploration'
\* with the map incomplete and the drone not blocked, under 'action' with no
\* affordable anomaly in the queue, under 'mixte' with an empty queue
FrontierSelectionRuns(d) ==
    /\ DecisionBranch(d) \in {"2C", "2D"}
    /\ IsNone(d.target_anomaly)
    /\ \/ /\ strategy = "exploration"
          /\ Cardinality(exploration_map) * 1000 < 999 * width
          /\ ~d.exploration_blocked_from_base
       \/ /\ strategy = "action"
          /\ AffordableOf(d, 2, TREATMENT_COST_INTENSE) = {}
          /\ AffordableOf(d, 1, TREATMENT_COST_WEAK) = {}
       \/ /\ strategy = "mixte"
          /\ d.detected_anomalies = << >>

\* the cell chosen among the qualifying ones: unexplored, unclaimed, affordable,
\* none of the qualifying cells strictly nearer; no anomaly is targeted
FrontierChoice(d, r) ==
    /\ r.target_x \in AffordableFrontier(d)
    /\ NearestIn(d, r.target_x, AffordableFrontier(d))
    /\ IsNone(r.target_anomaly)

\* C29 as stated: whenever the decision phase of a drone calls
\* _select_exploration_target, the drone gets a nearest unexplored, unclaimed,
\* affordable cell as target; if no cell qualifies it is declared blocked from the
\* base and its target is the base.
C29_FrontierSelection ==
    (pc = "decide" /\ FrontierSelectionRuns(drones[cur])) =>
        LET d == drones[cur]
            r == _select_exploration_target(d, exploration_map)
        IN  IF AffordableFrontier(d) # {}
            THEN FrontierChoice(d, r)
            ELSE r.exploration_blocked_from_base /\ r.target_x = BASE_X

\* C29 amended: as above, but with no qualifying cell the target is the base and
\* the drone is declared blocked from the base only if it is at the base; away from
\* the base the flag is cleared, and with no unexplored cell left it is untouched.
C29_FrontierSelectionAtBase ==
    (pc = "decide" /\ FrontierSelectionRuns(drones[cur])) =>
        LET d == drones[cur]
            r == _select_exploration_target(d, exploration_map)
        IN  IF AffordableFrontier(d) # {}
            THEN FrontierChoice(d, r) /\ ~r.exploration_blocked_from_base
            ELSE /\ r.target_x = BASE_X
                 /\ IsNone(r.target_anomaly)
                 /\ r.exploration_blocked_from_base =
                        IF Cells \ exploration_map = {}
                        THEN d.exploration_blocked_from_base
                        ELSE d.is_at_base

\* a call that has to pass over a nearer unexplored cell claimed by a peer and
\* over unexplored cells it cannot afford
C29_Witness ==
    /\ pc = "decide"
    /\ FrontierSelectionRuns(drones[cur])
    /\ AffordableFrontier(drones[cur]) # {}
    /\ \E c \in Cells \ exploration_map :
          /\ c \in DOMAIN drones[cur].zones_being_explored_by_others
          /\ \A q \in AffordableFrontier(drones[cur]) :
                calculate_distance(drones[cur].x, c) < calculate_distance(drones[cur].x, q)
    /\ \E c \in Cells \ exploration_map : TripCost(drones[cur], c) > drones[cur].battery

\* d holds as target an anomaly that is treated in anoms
HoldsTreatedTarget(d, anoms) ==
    /\ ~IsNone(d.target_anomaly)
    /\ anoms[d.target_anomaly.id].treated

\* C30: under every strategy, a drone whose anomaly target had been treated before
\* its decision phase began, and which goes through that phase within treatment
\* range of the anomaly (branch 2D), does not hold that anomaly as target after it.
C30_StaleTargetDropped ==
    (/\ pc = "move"
     /\ HoldsTreatedTarget(trace.drones[cur], trace.anomalies)
     /\ DecisionBranch(trace.drones[cur]) = "2D"
     /\ calculate_distance(trace.drones[cur].x, trace.drones[cur].target_anomaly.position)
            < NEAR_TARGET_RADIUS)
        => \/ IsNone(drones[cur].target_anomaly)
           \/ drones[cur].target_anomaly.id # trace.drones[cur].target_anomaly.id

\* the records of anomalies d knows: its queue and its personal map
KnownRecords(d) == Range(d.detected_anomalies) \cup Range(d.personal_anomaly_map)

\* d's battery does not cover the treatment of the anomaly of record r and the
\* way home
CannotAfford(d, r) ==
    d.battery < TreatmentCost(anomalies, r) + calculate_return_cost(d)

\* C31: treat_anomaly, called by any drone on any anomaly it knows with a battery
\* below treatment cost + return cost, returns False and leaves the battery, the
\* anomalies (their treated flags) and the drone's map of claimed anomalies as
\* they were.
C31_InfeasibleTreatmentDenied ==
    \A i \in Drones : \A r \in KnownRecords(drones[i]) :
        CannotAfford(drones[i], r) =>
            LET t == treat_anomaly(drones[i], anomalies, r)
            IN  /\ ~t.ok
                /\ t.d.battery = drones[i].battery
                /\ t.anoms = anomalies
                /\ t.d.anomalies_being_treated_by_others =
                       drones[i].anomalies_being_treated_by_others

\* a drone standing on its untreated anomaly target in its decision phase with a
\* battery that does not cover treatment and return
C31_Witness ==
    /\ pc = "decide"
    /\ ~IsNone(drones[cur].target_anomaly)
    /\ ~anomalies[drones[cur].target_anomaly.id].treated
    /\ calculate_distance(drones[cur].x, drones[cur].target_anomaly.position)
           < NEAR_TARGET_RADIUS
    /\ drones[cur].target_anomaly \in KnownRecords(drones[cur])
    /\ CannotAfford(drones[cur], drones[cur].target_anomaly)

\* the anomalies the evolution pass that has just run appended to the list
Spawned ==
    IF pc = "communicate" /\ cur = 0
    THEN (Len(trace.anomalies) + 1) .. Len(anomalies)
    ELSE {}

\* the positions whose neighbours are off the map or close to the base
EdgeParents == {0, width - 1} \cup ((BASE_X - 3) .. (BASE_X + 3))

C33_DriftWhateverSeverity ==
    (pc = "communicate" /\ cur = 0) =>
        \A k \in 1 .. Len(trace.anomalies) :
            ~trace.anomalies[k].treated =>
                anomalies[k].radius = RadiusDrift(trace.anomalies[k], step)

\* an evolution pass in which every draw succeeds: each anomaly the loop comes
\* to, the ones appended during the pass included, snowballs if it is weak and
\* spreads to the neighbour on the side dir if that cell is available, else to
\* the other one
RECURSIVE EvolveAllLucky(_, _, _, _)
EvolveAllLucky(anoms, k, st, dir) ==
    IF k > Len(anoms) THEN anoms
    ELSE LET free == available_neighbors(anoms, anoms[k].x)
             cell == IF anoms[k].x + dir \in free THEN anoms[k].x + dir
                     ELSE anoms[k].x - dir
         IN  EvolveAllLucky(evolve(anoms, k, st, TRUE, TRUE, cell), k + 1, st, dir)

\* the steps the run has left at most: the ticks left, and within the tick the
\* phases left
StepsPerDrone == 5
StepsPerTick == StepsPerDrone * NUM_DRONES + 3
StepsLeft ==
    IF pc = "done" THEN 0
    ELSE (max_steps - step) * StepsPerTick
         + (IF pc = "evolve" THEN StepsPerTick - 1
            ELSE IF pc = "endtick" THEN 1
            ELSE StepsPerDrone * (NUM_DRONES - cur) + 2
                 - (IF pc = "communicate" THEN 1
                    ELSE IF pc = "detect" THEN 2
                    ELSE IF pc = "decide" THEN 3
                    ELSE IF pc = "move" THEN 4
                    ELSE 5))

\* the tick count stays within the budget, and the evolution pass about to run
\* ends with at most one anomaly per cell even if every draw succeeds
WithinBudget ==
    /\ step + 1 <= max_steps
    /\ StepsLeft >= 0
    /\ pc = "evolve" =>
          \A dir \in {-1, 1} : Len(EvolveAllLucky(anomalies, 1, step, dir)) <= width

\* C34: every run ends within max_steps ticks: the tick count never exceeds the
\* budget, the evolution pass over the growing list ends even if every draw
\* succeeds, and every step of the run reduces the number of steps left, which
\* is never negative.
C34_RunTerminates == [](WithinBudget) /\ [][StepsLeft' < StepsLeft]_vars

\* the last tick of the budget ends the run although the mission is not
\* accomplished, after a pass that appended an anomaly to the list
C34_Witness ==
    /\ pc = "done"
    /\ step + 1 = max_steps
    /\ ~mission_accomplished(exploration_map, anomalies, drones)
    /\ \E k \in 1 .. Len(anomalies) : anomalies[k].x \notin AnomalyCells

\* every peer of drone i is out of its communication range
PeersOutOfRange(i) ==
    \A j \in Drones \ {i} :
        calculate_distance(drones[i].x, drones[j].x) > COMMUNICATION_RADIUS

\* the anomaly list of the run in which the peers of d have not treated the
\* anomalies that d still has in its queue (d removes what it treats itself) and
\* that lie beyond its vision
WithoutPeerTreatments(d, anoms) ==
    [k \in 1 .. Len(anoms) |->
        IF /\ \E r \in Range(d.detected_anomalies) : r.id = k
           /\ calculate_distance(d.x, anoms[k].x) > VISION_RADIUS
        THEN [anoms[k] EXCEPT !.treated = FALSE]
        ELSE anoms[k]]

\* C35: the target the decision phase gives a drone whose peers are all out of
\* range is the target it gives the same drone, with the same knowledge, in the
\* run in which the peers have not treated the anomalies that the drone has
\* queued and cannot see.
C35_SameTargetWhateverPeersDo ==
    (pc = "decide" /\ PeersOutOfRange(cur)) =>
        Decide(drones, cur, anomalies, exploration_map, control).ds[cur].target_x
            = Decide(drones, cur, WithoutPeerTreatments(drones[cur], anomalies),
                     exploration_map, control).ds[cur].target_x

\* C36: a drone whose position the movement phase has changed had, before the
\* move, at least the battery the move consumes (so the floor at zero in
\* move_towards_target changes nothing, and a drone with an empty battery stays
\* where it is).
C36_NoMoveBeyondBattery ==
    (pc = "transmit" /\ drones[cur].x # trace.drones[cur].x) =>
        trace.drones[cur].battery
            >= BatteryDrain(calculate_distance(drones[cur].x, trace.drones[cur].x))

\* the positions of the anomaly map of d
MapKeys(d) == {r.position : r \in Range(d.personal_anomaly_map)}

\* drone i and every drone of the fleet ds within its range hold the same explored
\* cells and the same anomaly positions
AgreesWithNeighbours(ds, i) ==
    \A j \in (DOMAIN ds) \ {i} :
        InRange(ds, i, j) =>
            /\ ds[j].personal_exploration_map = ds[i].personal_exploration_map
            /\ MapKeys(ds[j]) = MapKeys(ds[i])

\* the fleet with a third drone that knows what drone 0 knows and stands half way
\* between the two
FleetOfThree ==
    [k \in 0 .. NUM_DRONES |->
        IF k < NUM_DRONES THEN drones[k]
        ELSE [drones[0] EXCEPT !.id = NUM_DRONES,
                               !.x = (drones[0].x + drones[1].x) \div 2]]

ForwardOfThree == [k \in 1 .. (NUM_DRONES + 1) |-> k - 1]
BackwardOfThree == [k \in 1 .. (NUM_DRONES + 1) |-> NUM_DRONES + 1 - k]

\* C37: when a drone has gossiped in two passes, it and every peer within its
\* range hold the same explored cells and the same anomaly positions; the same
\* holds for the gossip of any drone of a fleet with a third drone standing
\* between the two.
C37_GossipLevels ==
    /\ pc = "detect" => AgreesWithNeighbours(drones, cur)
    /\ pc = "communicate" =>
          \A i \in DOMAIN FleetOfThree :
              AgreesWithNeighbours(
                  gossip_in_two_passes(FleetOfThree, i, ForwardOfThree, BackwardOfThree), i)

\* two drones in range of each other have just levelled explored cells and
\* anomaly maps that differed
C37_Witness ==
    /\ pc = "detect"
    /\ \E j \in Drones \ {cur} :
          /\ InRange(drones, cur, j)
          /\ trace.drones[j].personal_exploration_map
                 # trace.drones[cur].personal_exploration_map
          /\ MapKeys(trace.drones[j]) # MapKeys(trace.drones[cur])

\* the anomalies the decision phase that has just run has treated
JustTreated ==
    {k \in 1 .. Len(anomalies) : anomalies[k].treated /\ ~trace.anomalies[k].treated}

\* C38: treat_anomaly, called by any drone on an anomaly that is already treated,
\* returns False and leaves the battery and the anomalies as they were; and a
\* decision phase that takes energy from a drone's battery has treated exactly
\* one anomaly, which was untreated before, so that no anomaly is paid for twice.
C38_TreatedAtMostOnce ==
    /\ \A i \in Drones : \A r \in KnownRecords(drones[i]) :
          anomalies[r.id].treated =>
              LET t == treat_anomaly(drones[i], anomalies, r)
              IN  /\ ~t.ok
                  /\ t.d.battery = drones[i].battery
                  /\ t.anoms = anomalies
    /\ pc = "move" =>
          /\ drones[cur].battery <= trace.drones[cur].battery
          /\ drones[cur].battery < trace.drones[cur].battery
                => Cardinality(JustTreated) = 1
          /\ drones[cur].battery = trace.drones[cur].battery => JustTreated = {}

\* a drone with the battery for it has just gone through its decision phase next
\* to its anomaly target, which a peer had treated before: no energy was taken
C38_Witness ==
    /\ pc = "move"
    /\ HoldsTreatedTarget(trace.drones[cur], trace.anomalies)
    /\ DecisionBranch(trace.drones[cur]) = "2D"
    /\ trace.drones[cur].battery >=
           TreatmentCost(trace.anomalies, trace.drones[cur].target_anomaly)
               + calculate_return_cost(trace.drones[cur])
    /\ drones[cur].battery = trace.drones[cur].battery

\* C39: a drone that was within 3 units of the base when its update began and
\* whose position the update has changed had, when it moved, a battery of at
\* least the departure level; the battery it had after the recharge of that
\* update was no lower, the decision phase in between only taking energy.
C39_NoDepartureBelowLevel ==
    /\ (pc = "transmit" /\ trace.drones[cur].is_at_base
                        /\ drones[cur].x # trace.drones[cur].x)
           => trace.drones[cur].battery >= DepartureLevel
    /\ pc = "move" => /\ drones[cur].battery <= trace.drones[cur].battery
                      /\ drones[cur].x = trace.drones[cur].x
                      /\ drones[cur].is_at_base = trace.drones[cur].is_at_base
    /\ pc \in {"decide", "move"} =>
          drones[cur].is_at_base
              = (calculate_distance(drones[cur].x, BASE_X) < AT_BASE_RADIUS)

\* a drone at the base with a target elsewhere and a battery below the departure
\* level has stayed where it was
C39_Witness ==
    /\ pc = "transmit"
    /\ trace.drones[cur].is_at_base
    /\ trace.drones[cur].target_x \notin {NONE, BASE_X}
    /\ trace.drones[cur].battery < DepartureLevel
    /\ drones[cur].x = trace.drones[cur].x

\* the positions of the pending queue of d
QueueKeys(d) == {r.position : r \in Range(d.detected_anomalies)}

\* C40: no pending queue holds two entries with the same position; a position is
\* queued only at the moment the drone learns of it (it was not in the drone's
\* anomaly map before), and the anomaly map never forgets a position: so each
\* position enters a drone's queue at most once, and one that has left the queue
\* does not come back.
C40_QueuedAtMostOnce ==
    \A i \in Drones :
        /\ \A a, b \in 1 .. Len(drones[i].detected_anomalies) :
              a # b => drones[i].detected_anomalies[a].position
                           # drones[i].detected_anomalies[b].position
        /\ QueueKeys(drones[i]) \subseteq MapKeys(drones[i])
        /\ MapKeys(trace.drones[i]) \subseteq MapKeys(drones[i])
        /\ (QueueKeys(drones[i]) \ QueueKeys(trace.drones[i]))
               \cap MapKeys(trace.drones[i]) = {}

\* a drone has just gossiped with a peer in range that has in its queue a
\* position the drone knows and has removed from its own queue
C40_Witness ==
    /\ pc = "detect"
    /\ \E j \in Drones \ {cur} :
          /\ InRange(drones, cur, j)
          /\ QueueKeys(drones[j])
                 \cap (MapKeys(trace.drones[cur]) \ QueueKeys(trace.drones[cur])) # {}

====
